---- MODULE Spec2Model ----
(***************************************************************************)
(* Shell-and-fin fur renderer: FurRenderer (src/src/core/FurRenderer.js),  *)
(* ShellGeometry (src/unnamed/part_001), WindSimulation                    *)
(* (src/unnamed/part_002) and FinGeometry (src/unnamed/part_003).          *)
(*                                                                         *)
(* Numbers.  JavaScript numbers are modelled in fixed point: a real r is   *)
(* the integer 1000*r ("milli").  Counts (shellCount, maxFinCount, ids)    *)
(* are plain integers.  Wind time is kept in units of 10^-6 so that        *)
(* time + deltaTime*animationSpeed is exact.                               *)
(***************************************************************************)
EXTENDS Integers, Sequences, FiniteSets

VARIABLES
    windSimulation,   \* the WindSimulation instance (fields of part_002:9-63)
    furRenderer,      \* the FurRenderer instance (fields of FurRenderer.js:12-75)
    shellGeometry,    \* the ShellGeometry instance (fields of part_001:9-33)
    finGeometry,      \* the FinGeometry instance (fields of part_003:280-294)
    scene,            \* ids of the meshes currently added to the THREE.Scene
    heap,             \* BufferGeometry / Material objects created so far
    sourceMeshes,     \* the loaded model meshes, by name (FurApp.currentModel)
    baseMesh,         \* the mesh handed to a directly driven FinGeometry
    returned,         \* value returned by the last directly driven builder call
    lastOp,           \* the handler that ran last, with its argument
    observed,         \* what the last handler did (regeneration side channel)
    opCount,          \* number of handler calls so far
    windTwin,         \* a second WindSimulation instance, given the same calls
    initCalls         \* per init() call made so far, the materials it has created

vars == <<windSimulation, furRenderer, shellGeometry, finGeometry, scene, heap,
          sourceMeshes, baseMesh, returned, observed, initCalls, opCount, windTwin,
          lastOp>>

(***************************************************************************)
(* Bounds of the model.                                                    *)
(***************************************************************************)
MaxOps == 3

(***************************************************************************)
(* Arithmetic helpers.                                                     *)
(***************************************************************************)
Max(a, b) == IF a >= b THEN a ELSE b

Min(a, b) == IF a <= b THEN a ELSE b

Abs(a) == IF a >= 0 THEN a ELSE -a

\* Math.max(lo, Math.min(hi, x))
Clamp(lo, hi, x) == Max(lo, Min(hi, x))

\* product of two milli values, in milli (rounded toward zero)
Mul(a, b) == IF a * b >= 0 THEN (a * b) \div 1000 ELSE -((-(a * b)) \div 1000)

Zero3 == <<0, 0, 0>>

Scale3(v, k) == <<Mul(v[1], k), Mul(v[2], k), Mul(v[3], k)>>

Add3(u, v) == <<u[1] + v[1], u[2] + v[2], u[3] + v[3]>>

RECURSIVE SqrtIter(_, _)
SqrtIter(n, r) ==
    LET r2 == (r + n \div r) \div 2
    IN IF r2 >= r THEN r ELSE SqrtIter(n, r2)

\* floor(sqrt(n)) by Newton iteration
Sqrt(n) == IF n <= 0 THEN 0 ELSE SqrtIter(n, n)

\* THREE.Vector3.length(), milli in, milli out
Length3(v) == Sqrt(v[1] * v[1] + v[2] * v[2] + v[3] * v[3])

\* THREE.Vector3.normalize(): divideScalar(length() || 1)
Normalize3(v) ==
    LET len == Length3(v)
        div(c) == IF c >= 0 THEN (c * 1000) \div len ELSE -(((-c) * 1000) \div len)
    IN IF len = 0 THEN v ELSE <<div(v[1]), div(v[2]), div(v[3])>>

\* Math.sin on an angle in milli-radians, result in milli.  Bhaskara's
\* rational approximation 16x(pi-x) / (5pi^2 - 4x(pi-x)) on [0, pi],
\* extended by sin(x + pi) = -sin(x); pi is 3142 milli-radians.
Sin(a) ==
    LET x == a % 6284
        h == IF x >= 3142 THEN x - 3142 ELSE x
        p == h * (3142 - h)
        s == (16 * p) \div ((5 * 3142 * 3142 - 4 * p) \div 1000)
    IN IF x >= 3142 THEN -s ELSE s

\* Math.cos(a) = sin(a + pi/2)
Cos(a) == Sin(a + 1571)

\* Math.exp(-y) for y >= 0 in milli, result in milli: 1/(1 + y + y^2/2 + y^3/6)
ExpNeg(y) ==
    (1000 * 1000) \div (1000 + y + (y * y) \div 2000 + (((y * y) \div 1000) * y) \div 6000)

\* x^1.2 at x = 0, 0.1, ..., 1, in milli
Pow12Table == <<0, 63, 145, 236, 333, 435, 542, 652, 765, 881, 1000>>

\* Math.pow(x, 1.2) for x in [0, 1], milli in, milli out, by linear
\* interpolation between the tabulated values; exact at 0 and at 1
Pow12(x) ==
    LET k == x \div 100
    IN IF k >= 10 THEN 1000
       ELSE Pow12Table[k + 1]
              + ((Pow12Table[k + 2] - Pow12Table[k + 1]) * (x - 100 * k)) \div 100

(***************************************************************************)
(* WindSimulation (src/unnamed/part_002).                                  *)
(* Parameters are milli; time is in 10^-6; angles fed to Sin are           *)
(* milli-radians.  performance.now() durations are not modelled, the       *)
(* update counter is.                                                      *)
(***************************************************************************)

\* constructor; noise is the triple drawn by Math.random() * 1000
WindSimulation_new(noise) ==
    [ windDirection           |-> <<300, 400, 700>>,
      windStrength            |-> 1000,
      turbulenceIntensity     |-> 400,
      turbulenceFrequency     |-> 2000,
      gustStrength            |-> 500,
      gustFrequency           |-> 700,
      gustDuration            |-> 2000,
      windDampening           |-> 700,
      windResponsiveness      |-> 1000,
      windRandomnessIntensity |-> 300,
      animationSpeed          |-> 1000,
      windEnabled             |-> TRUE,
      time                    |-> 0,
      cachedWindForce         |-> Zero3,
      cachedTurbulence        |-> Zero3,
      cachedGustForce         |-> Zero3,
      finalWindVector         |-> Zero3,
      deltaTime               |-> 0,
      noiseOffset             |-> noise,
      updateCount             |-> 0 ]

calculateBaseWindForce(w) ==
    [w EXCEPT !.cachedWindForce = Scale3(w.windDirection, w.windStrength)]

\* time is the octave's time parameter in milli-radians
calculateTurbulenceOctave(w, time, frequency, amplitude) ==
    LET t  == time * frequency
        ox == w.noiseOffset[1] * 1000
        oy == w.noiseOffset[2] * 1000
        oz == w.noiseOffset[3] * 1000
    IN << Mul(Mul(Sin(t + ox), Cos((t * 13) \div 10 + (ox * 7) \div 10)), amplitude),
          Mul(Mul(Sin((t * 11) \div 10 + oy), Cos((t * 9) \div 10 + (oy * 8) \div 10)), amplitude),
          Mul(Mul(Sin((t * 8) \div 10 + oz), Cos((t * 12) \div 10 + (oz * 6) \div 10)), amplitude) >>

calculateHighQualityTurbulence(w, turbTime) ==
    LET octave1 == calculateTurbulenceOctave(w, turbTime, 1, 1000)
        octave2 == calculateTurbulenceOctave(w, turbTime, 2, 500)
        octave3 == calculateTurbulenceOctave(w, turbTime, 4, 250)
    IN [w EXCEPT !.cachedTurbulence =
            Scale3(Add3(Add3(octave1, octave2), octave3), w.turbulenceIntensity)]

calculateTurbulence(w) ==
    IF w.turbulenceIntensity <= 0
    THEN [w EXCEPT !.cachedTurbulence = Zero3]
    ELSE calculateHighQualityTurbulence(w, ((w.time \div 1000) * w.turbulenceFrequency) \div 1000)

\* calculateGusts without the early return and without the gustStrength factor
calculateGusts_Unscaled(w) ==
    LET gustTime      == ((w.time \div 1000) * w.gustFrequency) \div 1000
        gustCycle     == Sin(gustTime) \div 2 + 500
        gustEnvelope  == Mul(gustCycle, gustCycle)
        gustVariation == << Mul(Sin((gustTime * 21) \div 10), 300),
                            Mul(Sin((gustTime * 17) \div 10), 200),
                            Mul(Sin((gustTime * 23) \div 10), 300) >>
        gustDirection == Normalize3(Add3(Normalize3(w.windDirection), gustVariation))
    IN [w EXCEPT !.cachedGustForce = Scale3(gustDirection, gustEnvelope)]

calculateGusts(w) ==
    IF w.gustStrength <= 0
    THEN [w EXCEPT !.cachedGustForce = Zero3]
    ELSE
      LET gustTime      == ((w.time \div 1000) * w.gustFrequency) \div 1000
          gustCycle     == Sin(gustTime) \div 2 + 500
          gustEnvelope  == Mul(Mul(gustCycle, gustCycle),
                               ExpNeg(2 * Abs(Sin(Mul(gustTime, w.gustDuration)))))
          gustVariation == << Mul(Sin((gustTime * 21) \div 10), 300),
                              Mul(Sin((gustTime * 17) \div 10), 200),
                              Mul(Sin((gustTime * 23) \div 10), 300) >>
          gustDirection == Normalize3(Add3(Normalize3(w.windDirection), gustVariation))
      IN [w EXCEPT !.cachedGustForce =
              Scale3(gustDirection, Mul(gustEnvelope, w.gustStrength))]

combineFinalWindVector(w) ==
    LET summed   == Add3(Add3(w.cachedWindForce, w.cachedTurbulence), w.cachedGustForce)
        dampened == Scale3(summed, w.windDampening)
        responseFactor == Min((w.deltaTime * w.windResponsiveness) \div 100, 1000)
    IN [w EXCEPT !.finalWindVector =
            IF w.windResponsiveness # 1000
            THEN Scale3(dampened, responseFactor)
            ELSE dampened]

calculateWindForces(w) ==
    combineFinalWindVector(calculateGusts(calculateTurbulence(calculateBaseWindForce(w))))

\* update that advances time by the raw deltaTime, ignoring animationSpeed
update_RawDelta(w, deltaTime) ==
    IF ~w.windEnabled
    THEN [w EXCEPT !.finalWindVector = Zero3]
    ELSE LET w1 == [w EXCEPT !.deltaTime = deltaTime,
                             !.time = @ + deltaTime * 1000]
             w2 == calculateWindForces(w1)
         IN [w2 EXCEPT !.updateCount = @ + 1]

\* update(deltaTime)
WindSimulation_update(w, deltaTime) ==
    IF ~w.windEnabled
    THEN [w EXCEPT !.finalWindVector = Zero3]
    ELSE LET w1 == [w EXCEPT !.deltaTime = deltaTime,
                             !.time = @ + deltaTime * w.animationSpeed]
             w2 == calculateWindForces(w1)
         IN [w2 EXCEPT !.updateCount = @ + 1]

setWindDirectionX(w, x) == [w EXCEPT !.windDirection[1] = Clamp(-1000, 1000, x)]

setWindDirectionY(w, y) == [w EXCEPT !.windDirection[2] = Clamp(-1000, 1000, y)]

setWindDirectionZ(w, z) == [w EXCEPT !.windDirection[3] = Clamp(-1000, 1000, z)]

setWindDirection(w, x, y, z) ==
    setWindDirectionZ(setWindDirectionY(setWindDirectionX(w, x), y), z)

setWindStrength(w, strength) == [w EXCEPT !.windStrength = Clamp(0, 2000, strength)]

setTurbulenceIntensity(w, intensity) ==
    [w EXCEPT !.turbulenceIntensity = Clamp(0, 1000, intensity)]

setTurbulenceFrequency(w, frequency) ==
    [w EXCEPT !.turbulenceFrequency = Clamp(100, 5000, frequency)]

setGustStrength(w, strength) == [w EXCEPT !.gustStrength = Clamp(0, 2000, strength)]

setGustFrequency(w, frequency) == [w EXCEPT !.gustFrequency = Clamp(100, 3000, frequency)]

\* setGustDuration that has lost its lower clamp
setGustDuration_NoFloor(w, duration) == [w EXCEPT !.gustDuration = Min(5000, duration)]

setGustDuration(w, duration) == [w EXCEPT !.gustDuration = Clamp(500, 5000, duration)]

setWindDampening(w, dampening) == [w EXCEPT !.windDampening = Clamp(100, 1000, dampening)]

setWindResponsiveness(w, responsiveness) ==
    [w EXCEPT !.windResponsiveness = Clamp(100, 3000, responsiveness)]

setWindRandomnessIntensity(w, intensity) ==
    [w EXCEPT !.windRandomnessIntensity = Clamp(0, 1000, intensity)]

setAnimationSpeed(w, speed) == [w EXCEPT !.animationSpeed = Clamp(100, 3000, speed)]

\* setWindEnabled that forgets to zero the output force when disabling
setWindEnabled_KeepForce(w, enabled) == [w EXCEPT !.windEnabled = enabled]

setWindEnabled(w, enabled) ==
    [w EXCEPT !.windEnabled = enabled,
              !.finalWindVector = IF ~enabled THEN Zero3 ELSE @]

\* the setter sequence shared by the three non-calm presets
ApplyWindPreset(w, dir, strength, turbI, turbF, gustS, gustF, damp, resp, rand) ==
    setWindRandomnessIntensity(
     setWindResponsiveness(
      setWindDampening(
       setGustFrequency(
        setGustStrength(
         setTurbulenceFrequency(
          setTurbulenceIntensity(
           setWindStrength(
            setWindDirection(w, dir[1], dir[2], dir[3]),
            strength), turbI), turbF), gustS), gustF), damp), resp), rand)

applyGentleBreezePreset(w) ==
    ApplyWindPreset(w, <<300, 100, 200>>, 300, 200, 1500, 100, 300, 900, 800, 200)

applyStrongWindPreset(w) ==
    ApplyWindPreset(w, <<300, 400, 700>>, 1000, 400, 2000, 500, 700, 700, 1000, 300)

applyStormPreset(w) ==
    ApplyWindPreset(w, <<800, 200, 600>>, 1200, 700, 2500, 800, 1300, 800, 1500, 500)

resetToCalm(w) ==
    setWindRandomnessIntensity(
     setWindResponsiveness(
      setWindDampening(
       setGustStrength(
        setTurbulenceIntensity(
         setWindStrength(
          setWindDirection(w, 0, 0, 0), 0), 0), 0), 850), 1000), 0)

\* dispose(): the four vectors are set to null, here the empty tuple
WindSimulation_dispose(w) ==
    [w EXCEPT !.finalWindVector = <<>>, !.cachedWindForce = <<>>,
              !.cachedTurbulence = <<>>, !.cachedGustForce = <<>>]

getWindVector(w) == w.finalWindVector

getShaderUniforms(w) ==
    [ windVector              |-> getWindVector(w),
      windStrength            |-> w.windStrength,
      windTime                |-> w.time,
      windEnabled             |-> IF w.windEnabled THEN 1000 ELSE 0,
      turbulenceIntensity     |-> w.turbulenceIntensity,
      gustStrength            |-> w.gustStrength,
      windRandomnessIntensity |-> w.windRandomnessIntensity ]

(***************************************************************************)
(* Source meshes.  A THREE.BufferGeometry of a loaded model is the record  *)
(*   [uuid, indexed, index, vertexCount, position, normal, corners]        *)
(* where index is the triangle index list (empty when non-indexed),        *)
(* vertexCount is attributes.position.count, and position / normal tell    *)
(* whether the attribute is present.  corners describes the content of the *)
(* position array: corners[i + 1] is the point of the surface that vertex  *)
(* i lies on, <<>> when no two vertices coincide.  A mesh is               *)
(*   [valid, geometry, material]; valid = FALSE stands for null.           *)
(***************************************************************************)
MaxTriangles == 150

IndexedGeometry(uuid, index, vertexCount) ==
    [uuid |-> uuid, indexed |-> TRUE, index |-> index, vertexCount |-> vertexCount,
     position |-> TRUE, normal |-> TRUE, corners |-> <<>>]

NonIndexedGeometry(uuid, triangles) ==
    [uuid |-> uuid, indexed |-> FALSE, index |-> <<>>, vertexCount |-> 3 * triangles,
     position |-> TRUE, normal |-> TRUE, corners |-> <<>>]

\* a geometry that was given no normal attribute
WithoutNormal(geometry) == [geometry EXCEPT !.normal = FALSE]

\* new THREE.BufferGeometry() with no attribute set
EmptyGeometry(uuid) ==
    [uuid |-> uuid, indexed |-> FALSE, index |-> <<>>, vertexCount |-> 0,
     position |-> FALSE, normal |-> FALSE, corners |-> <<>>]

MeshOf(geometry, material) ==
    [valid |-> TRUE, geometry |-> geometry, material |-> material]

NullMesh == [valid |-> FALSE, geometry |-> NonIndexedGeometry(0, 0), material |-> 0]

\* a quad of two triangles sharing the diagonal 0-2
QuadIndex == <<0, 1, 2, 0, 2, 3>>

\* the quad as a triangle list (toNonIndexed): six vertices, two of them
\* at each end of the diagonal
NonIndexedQuad == [NonIndexedGeometry(7, 2) EXCEPT !.corners = QuadIndex]

\* a tetrahedron: every edge is shared by two faces
TetraIndex == <<0, 1, 2, 0, 3, 1, 1, 3, 2, 2, 3, 0>>

(***************************************************************************)
(* FinGeometry (src/unnamed/part_003:279-658).  A fin geometry is          *)
(* represented by the edge it was built from.                              *)
(***************************************************************************)
FinGeometry_new ==
    [ finMeshes         |-> <<>>,
      finLength         |-> 100,
      maxFinCount       |-> 2500,
      taperingEnabled   |-> TRUE,
      taperingIntensity |-> 700,
      taperingCurve     |-> "quadratic",
      taperingMethod    |-> "hybrid" ]

FinGeometry_setFinLength(fg, length) == [fg EXCEPT !.finLength = Max(0, length)]

\* count is milli; Math.floor(count) is count \div 1000
FinGeometry_setMaxFinCount(fg, count) ==
    [fg EXCEPT !.maxFinCount = Max(200, Min(2000, count \div 1000))]

FinGeometry_setTaperingEnabled(fg, enabled) == [fg EXCEPT !.taperingEnabled = enabled]

FinGeometry_setTaperingIntensity(fg, intensity) ==
    [fg EXCEPT !.taperingIntensity = Clamp(0, 1000, intensity)]

FinGeometry_setTaperingCurve(fg, curve) ==
    IF curve \in {"linear", "quadratic", "exponential"}
    THEN [fg EXCEPT !.taperingCurve = curve]
    ELSE fg

FinGeometry_setTaperingMethod(fg, method) ==
    IF method \in {"centroid", "normal", "hybrid"}
    THEN [fg EXCEPT !.taperingMethod = method]
    ELSE fg

\* Math.pow(p, 2.5) for a milli p >= 0: p * p * sqrt(p)
Pow25(p) == Mul(Mul(p, p), Sqrt(1000 * p))

\* calculateTaperingScale that looks at the intensity only
calculateTaperingScale_IgnoreEnabled(fg, normalizedPosition) ==
    IF fg.taperingIntensity = 0
    THEN 1000
    ELSE 1000 - Mul(Mul(normalizedPosition, normalizedPosition), fg.taperingIntensity)

\* calculateTaperingScale that tapers twice as much under the centroid method
calculateTaperingScale_CentroidDoubles(fg, normalizedPosition) ==
    IF ~fg.taperingEnabled \/ fg.taperingIntensity = 0
    THEN 1000
    ELSE 1000 - Mul(IF fg.taperingMethod = "centroid" THEN 2 * normalizedPosition
                                                       ELSE normalizedPosition,
                    fg.taperingIntensity)

\* calculateTaperingScale(normalizedPosition), milli in, milli out
FinGeometry_calculateTaperingScale(fg, normalizedPosition) ==
    IF ~fg.taperingEnabled \/ fg.taperingIntensity = 0
    THEN 1000
    ELSE
      LET curveFactor ==
              CASE fg.taperingCurve = "linear" -> normalizedPosition
                [] fg.taperingCurve = "quadratic" ->
                       Mul(normalizedPosition, normalizedPosition)
                [] fg.taperingCurve = "exponential" -> Pow25(normalizedPosition)
                [] OTHER -> Mul(normalizedPosition, normalizedPosition)
          taperingAmount == Mul(curveFactor, fg.taperingIntensity)
      IN 1000 - taperingAmount

\* a stride subsample that keeps the last edge of every stride, not the first
StrideSample_LastOfStride(uniqueEdges, maxFinCount) ==
    LET step == Len(uniqueEdges) \div maxFinCount
        idx  == [i \in 1..Len(uniqueEdges) |-> i]
        hit(i) == i % step = 0
        kept == SelectSeq(idx, hit)
    IN [k \in 1..Len(kept) |-> uniqueEdges[kept[k]]]

\* the stride subsample of an edge list longer than maxFinCount
StrideSample(uniqueEdges, maxFinCount) ==
    LET step == Len(uniqueEdges) \div maxFinCount
        idx  == [i \in 1..Len(uniqueEdges) |-> i]
        hit(i) == (i - 1) % step = 0
        kept == SelectSeq(idx, hit)
    IN [k \in 1..Len(kept) |-> uniqueEdges[kept[k]]]

filterUniqueEdges(fg, edges) ==
    LET key(e) == IF e.v0 < e.v1 THEN <<e.v0, e.v1>> ELSE <<e.v1, e.v0>>
        idx    == [i \in 1..Len(edges) |-> i]
        first(i) == \A j \in 1..(i - 1) : key(edges[j]) # key(edges[i])
        kept   == SelectSeq(idx, first)
        uniqueEdges == [k \in 1..Len(kept) |-> edges[kept[k]]]
    IN IF Len(uniqueEdges) > fg.maxFinCount
       THEN StrideSample(uniqueEdges, fg.maxFinCount)
       ELSE uniqueEdges

\* the three edges of triangle t (0-based), in the order the loops push them
extractEdges(fg, geometry) ==
    LET triangles ==
            IF geometry.indexed
            THEN (Len(geometry.index) + 2) \div 3
            ELSE (3 * geometry.vertexCount + 8) \div 9
        vertex(t, c) ==
            IF geometry.indexed THEN geometry.index[3 * t + c + 1] ELSE 3 * t + c
        edge(j) ==
            LET t == (j - 1) \div 3
                c == (j - 1) % 3
            IN [v0 |-> vertex(t, c), v1 |-> vertex(t, (c + 1) % 3)]
    IN filterUniqueEdges(fg, [j \in 1..(3 * triangles) |-> edge(j)])

\* generateFins(baseMesh): one fin geometry per retained edge
FinGeometry_generateFins(fg, mesh) ==
    IF ~mesh.valid THEN <<>> ELSE extractEdges(fg, mesh.geometry)

(***************************************************************************)
(* The object graph the handlers work on, as one record s:                 *)
(*   s.fr, s.sg, s.fg, s.ws  the four instances                            *)
(*   s.src    the loaded source meshes, by name                            *)
(*   s.scene  ids of the fin and shell meshes added to the scene           *)
(*   s.heap   [nextId, geometries, materials, disposed, userData]: ids of  *)
(*            the BufferGeometry and ShaderMaterial objects created by the *)
(*            renderer and its builders, those dispose() was called on,    *)
(*            and for a shell layer geometry what createShellLayer made of *)
(*            it                                                           *)
(*   s.obs    what the running handler did (see FreshObs)                  *)
(*   s.ret    the value the last builder call returned                     *)
(* A fin or shell THREE.Mesh is [id, geometry, material, cloneOf, wind]:  *)
(* its material is a clone of material cloneOf, and wind is the wind       *)
(* uniforms of that clone.                                                 *)
(***************************************************************************)
Elems(q) == {q[i] : i \in 1..Len(q)}

MeshIds(meshes) == {meshes[i].id : i \in 1..Len(meshes)}

GeometryIds(meshes) == {meshes[i].geometry : i \in 1..Len(meshes)}

MaterialIds(meshes) == {meshes[i].material : i \in 1..Len(meshes)}

\* regenerations: builder runs during the handler; installs: the builder
\* parameters of each run; stale: geometries / meshes of the previous set that
\* were still undisposed / in the scene when a new set was installed;
\* error: the exception the handler raised to its caller, "none" if it returned
FreshObs == [regenerations |-> 0, installs |-> <<>>, stale |-> {}, error |-> "none"]

\* reading .array or .count of an attribute that is undefined
ThrowTypeError(s) == [s EXCEPT !.obs.error = "TypeError"]

(***************************************************************************)
(* ShellGeometry (src/unnamed/part_001).  geometryPool is the Map in       *)
(* insertion order, a sequence of [key, geometries].                       *)
(***************************************************************************)
ShellGeometry_new ==
    [ shellCount        |-> 16,
      shellSpacing      |-> 20,
      maxShellDistance  |-> 300,
      taperingEnabled   |-> TRUE,
      taperingIntensity |-> 700,
      taperingCurve     |-> "quadratic",
      taperingMethod    |-> "hybrid",
      shellGeometries   |-> <<>>,
      baseGeometry      |-> 0,
      geometryPool      |-> <<>>,
      maxPoolSize       |-> 64 ]

ShellGeometry_clearShells(s) ==
    [s EXCEPT !.heap.disposed = @ \cup Elems(s.sg.shellGeometries),
              !.sg.shellGeometries = <<>>]

\* count is milli; Math.floor(count) is count \div 1000
ShellGeometry_setShellCount(s, count) ==
    ShellGeometry_clearShells(
        [s EXCEPT !.sg.shellCount = Max(8, Min(32, count \div 1000))])

ShellGeometry_setShellSpacing(s, spacing) ==
    ShellGeometry_clearShells([s EXCEPT !.sg.shellSpacing = Max(1, spacing)])

ShellGeometry_setMaxShellDistance(s, distance) ==
    ShellGeometry_clearShells([s EXCEPT !.sg.maxShellDistance = Max(10, distance)])

ShellGeometry_setTaperingEnabled(s, enabled) ==
    ShellGeometry_clearShells([s EXCEPT !.sg.taperingEnabled = enabled])

ShellGeometry_setTaperingIntensity(s, intensity) ==
    ShellGeometry_clearShells(
        [s EXCEPT !.sg.taperingIntensity = Clamp(0, 1000, intensity)])

ShellGeometry_setTaperingCurve(s, curve) ==
    IF curve \in {"linear", "quadratic", "exponential"}
    THEN ShellGeometry_clearShells([s EXCEPT !.sg.taperingCurve = curve])
    ELSE s

\* setTaperingMethod that stores whatever string it is given
setTaperingMethod_Unchecked(s, method) ==
    ShellGeometry_clearShells([s EXCEPT !.sg.taperingMethod = method])

ShellGeometry_setTaperingMethod(s, method) ==
    IF method \in {"centroid", "normal", "hybrid"}
    THEN ShellGeometry_clearShells([s EXCEPT !.sg.taperingMethod = method])
    ELSE s

\* calculateTaperingScale whose quadratic curve is 2 * p
calculateTaperingScale_DoubledQuadratic(sg, normalizedLayer) ==
    IF ~sg.taperingEnabled \/ sg.taperingIntensity = 0
    THEN 1000
    ELSE 1000 - Mul(2 * normalizedLayer, sg.taperingIntensity)

\* calculateTaperingScale(normalizedLayer), milli in, milli out
ShellGeometry_calculateTaperingScale(sg, normalizedLayer) ==
    IF ~sg.taperingEnabled \/ sg.taperingIntensity = 0
    THEN 1000
    ELSE
      LET curveFactor ==
              CASE sg.taperingCurve = "linear" -> normalizedLayer
                [] sg.taperingCurve = "quadratic" -> Mul(normalizedLayer, normalizedLayer)
                [] sg.taperingCurve = "exponential" -> Pow25(normalizedLayer)
                [] OTHER -> Mul(normalizedLayer, normalizedLayer)
          taperingAmount == Mul(curveFactor, sg.taperingIntensity)
      IN 1000 - taperingAmount

\* the template string, as the tuple of the values it concatenates
generatePoolKey(sg, geometry, shellCount) ==
    << geometry.uuid, geometry.vertexCount, shellCount, sg.shellSpacing,
       sg.maxShellDistance, sg.taperingEnabled, sg.taperingIntensity,
       sg.taperingCurve, sg.taperingMethod, "isolated" >>

\* index of key in the pool, 0 when absent (Map.has / Map.get)
PoolIndex(pool, key) ==
    IF \E i \in 1..Len(pool) : pool[i].key = key
    THEN CHOOSE i \in 1..Len(pool) : pool[i].key = key
    ELSE 0

\* every geometry held by some entry of the pool
PooledGeometries(sg) ==
    UNION {Elems(sg.geometryPool[i].geometries) : i \in 1..Len(sg.geometryPool)}

\* createIndependentGeometry for a non-indexed base that wraps the base's
\* arrays instead of copying them
createIndependentGeometry_SharedArrays(geometry) ==
    IF geometry.indexed
    THEN [position |-> "own", normal |-> "own", uv |-> "own", index |-> "none"]
    ELSE [position |-> "base", normal |-> "base", uv |-> "base", index |-> "none"]

\* createIndependentGeometry(): whose array each attribute of the new
\* geometry holds.  Both branches fill arrays made by new Float32Array, the
\* layer's own, and no index is set
createIndependentGeometry(geometry) ==
    [position |-> "own", normal |-> "own", uv |-> "own", index |-> "none"]

\* the array behind attribute attr of the geometry tagged with userData
\* `layer` at heap id `id`
ArrayOf(layer, id, attr) ==
    IF layer.attributes[attr] = "own" THEN <<"geometry", id, attr>>
                                      ELSE <<"source", layer.base, attr>>

\* the arrays of a source geometry
SourceArrays(geometry) ==
    {<<"source", geometry.uuid, attr>> : attr \in {"position", "normal", "uv", "index"}}

\* geo.clone() for each geometry of the list: the clone, at the next free
\* id, has the userData of its source and copies of its attribute arrays
Cloned(h, geometries) ==
    [id \in DOMAIN h.userData \cup {h.nextId + k : k \in 1..Len(geometries)} |->
        IF id \in DOMAIN h.userData
        THEN h.userData[id]
        ELSE [h.userData[geometries[id - h.nextId]] EXCEPT
                 !.attributes = [position |-> "own", normal |-> "own",
                                 uv |-> "own", index |-> "none"]]]

\* createShellLayer that numbers the layers from 0
createShellLayer_ZeroBased(sg, geometry, layerIndex, totalShells) ==
    [ shellLayer      |-> layerIndex - 1,
      shellCount      |-> totalShells,
      offsetDistance  |-> Pow12((1000 * (layerIndex - 1)) \div totalShells)
                              * sg.maxShellDistance,
      normalizedLayer |-> (1000 * (layerIndex - 1)) \div totalShells,
      indexed         |-> FALSE,
      base            |-> geometry.uuid,
      attributes      |-> createIndependentGeometry(geometry),
      vertexCount     |-> IF geometry.indexed THEN Len(geometry.index)
                                              ELSE geometry.vertexCount ]

\* createShellLayer whose offset is layerIndex * shellSpacing
createShellLayer_SpacingOffset(sg, geometry, layerIndex, totalShells) ==
    [ shellLayer      |-> layerIndex,
      shellCount      |-> totalShells,
      offsetDistance  |-> layerIndex * sg.shellSpacing * 1000,
      normalizedLayer |-> (1000 * layerIndex) \div totalShells,
      indexed         |-> FALSE,
      base            |-> geometry.uuid,
      attributes      |-> createIndependentGeometry(geometry),
      vertexCount     |-> IF geometry.indexed THEN Len(geometry.index)
                                              ELSE geometry.vertexCount ]

\* sg.createShellLayer(layerIndex, totalShells) on base geometry `geometry`:
\* the layer made by createIndependentGeometry, one vertex per face corner
\* and no index, with the userData it is tagged with (the displaced
\* positions are left out).  normalizedLayer is milli; offsetDistance, the
\* product of two milli values, is kept in 10^-6 so that no digit is lost
createShellLayer(sg, geometry, layerIndex, totalShells) ==
    [ shellLayer      |-> layerIndex,
      shellCount      |-> totalShells,
      offsetDistance  |-> Pow12((1000 * layerIndex) \div totalShells)
                              * sg.maxShellDistance,
      normalizedLayer |-> (1000 * layerIndex) \div totalShells,
      indexed         |-> FALSE,
      base            |-> geometry.uuid,
      attributes      |-> createIndependentGeometry(geometry),
      vertexCount     |-> IF geometry.indexed THEN Len(geometry.index)
                                              ELSE geometry.vertexCount ]

\* addToGeometryPool that evicts only once the pool is over its size
addToGeometryPool_LateEvict(s, key, geometries) ==
    LET full == Len(s.sg.geometryPool) > s.sg.maxPoolSize
        s1 == IF full
              THEN [s EXCEPT !.heap.disposed = @ \cup Elems(s.sg.geometryPool[1].geometries),
                             !.sg.geometryPool = Tail(@)]
              ELSE s
        n  == Len(geometries)
        clonedGeometries == [k \in 1..n |-> s1.heap.nextId + k]
        entry == [key |-> key, geometries |-> clonedGeometries]
    IN [s1 EXCEPT !.heap.nextId = @ + n,
                  !.heap.geometries = @ \cup Elems(clonedGeometries),
                  !.heap.userData = Cloned(s1.heap, geometries),
                  !.sg.geometryPool = Append(@, entry)]

addToGeometryPool(s, key, geometries) ==
    LET full == Len(s.sg.geometryPool) >= s.sg.maxPoolSize
        s1 == IF full
              THEN [s EXCEPT !.heap.disposed = @ \cup Elems(s.sg.geometryPool[1].geometries),
                             !.sg.geometryPool = Tail(@)]
              ELSE s
        n  == Len(geometries)
        clonedGeometries == [k \in 1..n |-> s1.heap.nextId + k]
        at == PoolIndex(s1.sg.geometryPool, key)
        entry == [key |-> key, geometries |-> clonedGeometries]
    IN [s1 EXCEPT !.heap.nextId = @ + n,
                  !.heap.geometries = @ \cup Elems(clonedGeometries),
                  !.heap.userData = Cloned(s1.heap, geometries),
                  !.sg.geometryPool =
                      IF at = 0 THEN Append(@, entry) ELSE [@ EXCEPT ![at] = entry]]

\* generateShells(baseMesh); s.ret is the returned array
ShellGeometry_generateShells(s, mesh) ==
    IF ~mesh.valid
    THEN [s EXCEPT !.ret = <<>>]
    ELSE
      LET s1 == [ShellGeometry_clearShells(s) EXCEPT !.sg.baseGeometry = mesh.geometry.uuid]
          \* computeVertexNormals() on a base without normals stores a
          \* normal attribute into the base geometry
          computed == IF mesh.geometry.normal
                      THEN {}
                      ELSE {<<"source", mesh.geometry.uuid, "normal">>}
          \* processIndependentFace stores the displaced vertices into the
          \* layer's position array: a change to the base's array where the
          \* layer holds that one
          displaced == IF createIndependentGeometry(mesh.geometry).position = "base"
                       THEN {<<"source", mesh.geometry.uuid, "position">>}
                       ELSE {}
          effectiveShellCount == s1.sg.shellCount
          poolKey == generatePoolKey(s1.sg, mesh.geometry, effectiveShellCount)
          at == PoolIndex(s1.sg.geometryPool, poolKey)
          \* createShellLayer(i, effectiveShellCount) for i = 1..effectiveShellCount
          layers == [i \in 1..effectiveShellCount |-> s1.heap.nextId + i]
          s2 == [s1 EXCEPT !.heap.nextId = @ + effectiveShellCount,
                           !.heap.geometries = @ \cup Elems(layers),
                           !.heap.userData =
                               [id \in DOMAIN s1.heap.userData \cup Elems(layers) |->
                                  IF id \in DOMAIN s1.heap.userData
                                  THEN s1.heap.userData[id]
                                  ELSE createShellLayer(s1.sg, mesh.geometry, id - s1.heap.nextId,
                                                        effectiveShellCount)],
                           !.sg.shellGeometries = layers]
      IN \* computeVertexNormals() does nothing without positions, and
         \* generatePoolKey then reads attributes.position.count
         IF ~mesh.geometry.position
         THEN ThrowTypeError(s1)
         ELSE IF at # 0
         THEN [s1 EXCEPT !.sg.shellGeometries = s1.sg.geometryPool[at].geometries,
                         !.heap.written = @ \cup computed,
                         !.ret = s1.sg.geometryPool[at].geometries]
         ELSE [addToGeometryPool(s2, poolKey, layers) EXCEPT
                  !.heap.written = @ \cup computed \cup displaced,
                  !.ret = layers]

ShellGeometry_clearGeometryPool(s) ==
    [s EXCEPT !.heap.disposed = @ \cup PooledGeometries(s.sg),
              !.sg.geometryPool = <<>>]

ShellGeometry_dispose(s) ==
    [ShellGeometry_clearGeometryPool(ShellGeometry_clearShells(s)) EXCEPT
        !.sg.baseGeometry = 0]

(***************************************************************************)
(* FurRenderer (src/src/core/FurRenderer.js).  Materials are ids, 0 is     *)
(* null/undefined.  Only the wind uniforms of the materials are modelled;  *)
(* colour, light and opacity uniforms are shading pass-through.            *)
(***************************************************************************)
FurRenderer_new(ws) ==
    [ finMeshes            |-> <<>>,
      shellMeshes          |-> <<>>,
      finEnabled           |-> TRUE,
      finLength            |-> 50,
      maxFinCount          |-> 5000,
      finTaperingEnabled   |-> TRUE,
      finTaperingIntensity |-> 700,
      finTaperingCurve     |-> "quadratic",
      finTaperingMethod    |-> "hybrid",
      shellEnabled         |-> TRUE,
      shellCount           |-> 24,
      shellSpacing         |-> 5,
      maxShellDistance     |-> 100,
      taperingEnabled      |-> TRUE,
      taperingIntensity    |-> 700,
      taperingCurve        |-> "quadratic",
      taperingMethod       |-> "hybrid",
      currentMesh          |-> "null",
      originalMaterial     |-> 0,
      surfaceMaterial      |-> 0,
      finMaterial          |-> 0,
      shellMaterial        |-> 0,
      finMaterialWind      |-> getShaderUniforms(ws),
      shellMaterialWind    |-> getShaderUniforms(ws) ]

\* createSurfaceRenderer(), from the point its two shader loads have resolved
createSurfaceRenderer(s) ==
    LET id == s.heap.nextId + 1
    IN [s EXCEPT !.heap.nextId = id,
                 !.heap.materials = @ \cup {id},
                 !.fr.surfaceMaterial = id]

createFinRenderer(s) ==
    LET id == s.heap.nextId + 1
    IN [s EXCEPT !.heap.nextId = id,
                 !.heap.materials = @ \cup {id},
                 !.fr.finMaterial = id,
                 !.fr.finMaterialWind = getShaderUniforms(s.ws)]

createShellRenderer(s) ==
    LET id == s.heap.nextId + 1
    IN [s EXCEPT !.heap.nextId = id,
                 !.heap.materials = @ \cup {id},
                 !.fr.shellMaterial = id,
                 !.fr.shellMaterialWind = getShaderUniforms(s.ws)]

\* init() run from its call to its end with no other code in between
FurRenderer_init(s) ==
    createShellRenderer(createFinRenderer(createSurfaceRenderer(s)))

\* side channel: a builder run with the given parameters replaces the set `old`
Regenerated(s, old, params) ==
    [s EXCEPT !.obs.regenerations = @ + 1,
              !.obs.installs = Append(@, params),
              !.obs.stale = @ \cup (GeometryIds(old) \ s.heap.disposed)
                              \cup (MeshIds(old) \cap s.scene)]

\* clearFins that removes the fin meshes without disposing their geometry
clearFins_KeepGeometry(s) ==
    [s EXCEPT !.scene = @ \ MeshIds(s.fr.finMeshes),
              !.fr.finMeshes = <<>>]

FurRenderer_clearFins(s) ==
    [s EXCEPT !.scene = @ \ MeshIds(s.fr.finMeshes),
              !.heap.disposed = @ \cup GeometryIds(s.fr.finMeshes),
              !.fr.finMeshes = <<>>]

FurRenderer_generateFins(s) ==
    IF s.fr.currentMesh = "null" \/ ~s.fr.finEnabled
    THEN s
    ELSE
      LET s1 == FurRenderer_clearFins(s)
          fg == FinGeometry_setTaperingMethod(
                 FinGeometry_setTaperingCurve(
                  FinGeometry_setTaperingIntensity(
                   FinGeometry_setTaperingEnabled(
                    FinGeometry_setMaxFinCount(
                     FinGeometry_setFinLength(s1.fg, s1.fr.finLength),
                     1000 * s1.fr.maxFinCount),
                    s1.fr.finTaperingEnabled),
                   s1.fr.finTaperingIntensity),
                  s1.fr.finTaperingCurve),
                 s1.fr.finTaperingMethod)
          geometry == s1.src[s1.fr.currentMesh].geometry
          finGeometries == FinGeometry_generateFins(fg, s1.src[s1.fr.currentMesh])
          n    == Len(finGeometries)
          base == s1.heap.nextId
          \* geometry ids base+1..base+n, then a material clone and a mesh per fin
          meshes == [k \in 1..n |->
                       [ id       |-> base + n + 2 * k,
                         geometry |-> base + k,
                         material |-> base + n + 2 * k - 1,
                         cloneOf  |-> s1.fr.finMaterial,
                         wind     |-> s1.fr.finMaterialWind ]]
          s2 == Regenerated([s1 EXCEPT !.fg = fg], s.fr.finMeshes,
                            [ builder   |-> "fin",
                              enabled   |-> fg.taperingEnabled,
                              intensity |-> fg.taperingIntensity,
                              curve     |-> fg.taperingCurve,
                              method    |-> fg.taperingMethod ])
      IN \* FinGeometry.generateFins reads attributes.position.array and
         \* attributes.normal.array before it builds a fin
         IF ~geometry.position \/ ~geometry.normal
         THEN ThrowTypeError([s1 EXCEPT !.fg = fg])
         ELSE
         [s2 EXCEPT !.heap.nextId = base + 3 * n,
                    !.heap.geometries = @ \cup GeometryIds(meshes),
                    !.heap.materials = @ \cup MaterialIds(meshes),
                    !.scene = @ \cup MeshIds(meshes),
                    !.fr.finMeshes = meshes]

FurRenderer_clearShells(s) ==
    [s EXCEPT !.scene = @ \ MeshIds(s.fr.shellMeshes),
              !.heap.disposed = @ \cup GeometryIds(s.fr.shellMeshes)
                                  \cup MaterialIds(s.fr.shellMeshes),
              !.fr.shellMeshes = <<>>]

\* the loop of generateShells over the geometries the builder returned (s3.ret)
InstallShells(s, s3) ==
    LET shellGeometries == s3.ret
        n    == Len(shellGeometries)
        base == s3.heap.nextId
        meshes == [k \in 1..n |->
                     [ id       |-> base + 2 * k,
                       geometry |-> shellGeometries[k],
                       material |-> base + 2 * k - 1,
                       cloneOf  |-> s3.fr.shellMaterial,
                       wind     |-> s3.fr.shellMaterialWind ]]
    IN IF s3.obs.error # "none"
       THEN s3
       ELSE
       \* ShellGeometry.generateShells has computed the normals of the
       \* source geometry where they were absent
       [Regenerated(s3, s.fr.shellMeshes,
                    [ builder   |-> "shell",
                      enabled   |-> s3.sg.taperingEnabled,
                      intensity |-> s3.sg.taperingIntensity,
                      curve     |-> s3.sg.taperingCurve,
                      method    |-> s3.sg.taperingMethod ])
          EXCEPT !.src[s.fr.currentMesh].geometry.normal = TRUE,
                 !.heap.nextId = base + 2 * n,
                 !.heap.materials = @ \cup MaterialIds(meshes),
                 !.scene = @ \cup MeshIds(meshes),
                 !.fr.shellMeshes = meshes]

\* the builder given the renderer's shell parameters (FurRenderer.js:938-946)
SyncShellParameters(s1) ==
    ShellGeometry_setTaperingMethod(
     ShellGeometry_setTaperingCurve(
      ShellGeometry_setTaperingIntensity(
       ShellGeometry_setTaperingEnabled(
        ShellGeometry_setMaxShellDistance(
         ShellGeometry_setShellSpacing(
          ShellGeometry_setShellCount(s1, 1000 * s1.fr.shellCount),
          s1.fr.shellSpacing),
         s1.fr.maxShellDistance),
        s1.fr.taperingEnabled),
       s1.fr.taperingIntensity),
      s1.fr.taperingCurve),
     s1.fr.taperingMethod)

FurRenderer_generateShells(s) ==
    IF s.fr.currentMesh = "null" \/ ~s.fr.shellEnabled
    THEN s
    ELSE InstallShells(s, ShellGeometry_generateShells(
                            SyncShellParameters(FurRenderer_clearShells(s)),
                            s.src[s.fr.currentMesh]))

\* setMesh(mesh); mesh is the name of a source mesh, "null" for null
FurRenderer_setMesh(s, mesh) ==
    LET s1 == IF s.fr.currentMesh # "null"
              THEN FurRenderer_clearShells(FurRenderer_clearFins(
                     IF s.fr.originalMaterial # 0
                     THEN [s EXCEPT !.src[s.fr.currentMesh].material = s.fr.originalMaterial]
                     ELSE s))
              ELSE s
        s2 == [s1 EXCEPT !.fr.currentMesh = mesh]
        s3 == [s2 EXCEPT !.fr.originalMaterial = s2.src[mesh].material,
                         !.src[mesh].material = s2.fr.surfaceMaterial]
        s4 == IF s3.fr.finEnabled THEN FurRenderer_generateFins(s3) ELSE s3
    IN IF mesh = "null"
       THEN s2
       ELSE IF s4.obs.error = "none" /\ s4.fr.shellEnabled
            THEN FurRenderer_generateShells(s4)
            ELSE s4

\* if (this.finEnabled && this.currentMesh) this.generateFins()
RegenerateFins(s) ==
    IF s.fr.finEnabled /\ s.fr.currentMesh # "null" THEN FurRenderer_generateFins(s) ELSE s

\* if (this.shellEnabled && this.currentMesh) this.generateShells()
RegenerateShells(s) ==
    IF s.fr.shellEnabled /\ s.fr.currentMesh # "null" THEN FurRenderer_generateShells(s) ELSE s

\* setFinEnabled that leaves the fin meshes in place when fins are disabled
setFinEnabled_KeepFins(s, enabled) ==
    LET s1 == [s EXCEPT !.fr.finEnabled = enabled]
    IN IF enabled /\ s1.fr.currentMesh # "null"
       THEN FurRenderer_generateFins(s1)
       ELSE s1

FurRenderer_setFinEnabled(s, enabled) ==
    LET s1 == [s EXCEPT !.fr.finEnabled = enabled]
    IN IF enabled /\ s1.fr.currentMesh # "null"
       THEN FurRenderer_generateFins(s1)
       ELSE FurRenderer_clearFins(s1)

FurRenderer_setFinLength(s, length) ==
    RegenerateFins([s EXCEPT !.fr.finLength = Max(0, length)])

\* count is milli
FurRenderer_setMaxFinCount(s, count) ==
    RegenerateFins([s EXCEPT !.fr.maxFinCount = Max(200, Min(2000, count \div 1000))])

FurRenderer_setShellEnabled(s, enabled) ==
    LET s1 == [s EXCEPT !.fr.shellEnabled = enabled]
    IN IF enabled /\ s1.fr.currentMesh # "null"
       THEN FurRenderer_generateShells(s1)
       ELSE FurRenderer_clearShells(s1)

\* setShellCount that has lost its lower clamp
setShellCount_NoFloor(s, count) ==
    RegenerateShells([s EXCEPT !.fr.shellCount = Min(32, count \div 1000)])

\* count is milli
FurRenderer_setShellCount(s, count) ==
    RegenerateShells([s EXCEPT !.fr.shellCount = Max(8, Min(32, count \div 1000))])

FurRenderer_setShellSpacing(s, spacing) ==
    RegenerateShells([s EXCEPT !.fr.shellSpacing = Max(1, spacing)])

FurRenderer_setMaxShellDistance(s, distance) ==
    RegenerateShells([s EXCEPT !.fr.maxShellDistance = Max(10, distance)])

FurRenderer_setTaperingEnabled(s, enabled) ==
    RegenerateShells([s EXCEPT !.fr.taperingEnabled = enabled])

FurRenderer_setTaperingIntensity(s, intensity) ==
    RegenerateShells([s EXCEPT !.fr.taperingIntensity = Clamp(0, 1000, intensity)])

FurRenderer_setTaperingCurve(s, curve) ==
    IF curve \in {"linear", "quadratic", "exponential"}
    THEN RegenerateShells([s EXCEPT !.fr.taperingCurve = curve])
    ELSE s

FurRenderer_setTaperingMethod(s, method) ==
    IF method \in {"centroid", "normal", "hybrid"}
    THEN RegenerateShells([s EXCEPT !.fr.taperingMethod = method])
    ELSE s

\* this.<setter>(value) as the statement that follows one which ran to s:
\* skipped when that one threw
Then(s, setter, value) ==
    IF s.obs.error # "none"
    THEN s
    ELSE CASE setter = "setTaperingIntensity" -> FurRenderer_setTaperingIntensity(s, value)
           [] setter = "setTaperingCurve"     -> FurRenderer_setTaperingCurve(s, value)
           [] setter = "setTaperingMethod"    -> FurRenderer_setTaperingMethod(s, value)

\* the four setter calls of a 'subtle' / 'moderate' / 'strong' case
TaperingPresetValues(preset) ==
    CASE preset = "subtle"   -> [intensity |-> 300, curve |-> "linear", method |-> "hybrid"]
      [] preset = "moderate" -> [intensity |-> 700, curve |-> "quadratic", method |-> "hybrid"]
      [] preset = "strong"   -> [intensity |-> 900, curve |-> "exponential", method |-> "centroid"]

FurRenderer_applyTaperingPreset(s, preset) ==
    IF preset = "none"
    THEN FurRenderer_setTaperingEnabled(s, FALSE)
    ELSE IF preset \in {"subtle", "moderate", "strong"}
    THEN LET v == TaperingPresetValues(preset)
         IN Then(Then(Then(FurRenderer_setTaperingEnabled(s, TRUE),
                           "setTaperingIntensity", v.intensity),
                      "setTaperingCurve", v.curve),
                 "setTaperingMethod", v.method)
    ELSE s

FurRenderer_setFinTaperingEnabled(s, enabled) ==
    RegenerateFins([s EXCEPT !.fr.finTaperingEnabled = enabled])

FurRenderer_setFinTaperingIntensity(s, intensity) ==
    RegenerateFins([s EXCEPT !.fr.finTaperingIntensity = Clamp(0, 1000, intensity)])

FurRenderer_setFinTaperingCurve(s, curve) ==
    IF curve \in {"linear", "quadratic", "exponential"}
    THEN RegenerateFins([s EXCEPT !.fr.finTaperingCurve = curve])
    ELSE s

FurRenderer_setFinTaperingMethod(s, method) ==
    IF method \in {"centroid", "normal", "hybrid"}
    THEN RegenerateFins([s EXCEPT !.fr.finTaperingMethod = method])
    ELSE s

\* the same for the fin setters
ThenFin(s, setter, value) ==
    IF s.obs.error # "none"
    THEN s
    ELSE CASE setter = "setFinTaperingIntensity" ->
                  FurRenderer_setFinTaperingIntensity(s, value)
           [] setter = "setFinTaperingCurve"  -> FurRenderer_setFinTaperingCurve(s, value)
           [] setter = "setFinTaperingMethod" -> FurRenderer_setFinTaperingMethod(s, value)

FurRenderer_applyFinTaperingPreset(s, preset) ==
    IF preset = "none"
    THEN FurRenderer_setFinTaperingEnabled(s, FALSE)
    ELSE IF preset \in {"subtle", "moderate", "strong"}
    THEN LET v == TaperingPresetValues(preset)
         IN ThenFin(ThenFin(ThenFin(FurRenderer_setFinTaperingEnabled(s, TRUE),
                                    "setFinTaperingIntensity", v.intensity),
                            "setFinTaperingCurve", v.curve),
                    "setFinTaperingMethod", v.method)
    ELSE s

\* updateWindUniforms that refreshes the two base materials only
updateWindUniforms_BaseOnly(s) ==
    LET windUniforms == getShaderUniforms(s.ws)
    IN [s EXCEPT !.fr.finMaterialWind = IF s.fr.finMaterial # 0 THEN windUniforms ELSE @,
                 !.fr.shellMaterialWind = IF s.fr.shellMaterial # 0 THEN windUniforms ELSE @]

updateWindUniforms(s) ==
    LET windUniforms == getShaderUniforms(s.ws)
    IN [s EXCEPT !.fr.finMaterialWind = IF s.fr.finMaterial # 0 THEN windUniforms ELSE @,
                 !.fr.shellMaterialWind = IF s.fr.shellMaterial # 0 THEN windUniforms ELSE @,
                 !.fr.finMeshes = [k \in 1..Len(@) |-> [@[k] EXCEPT !.wind = windUniforms]],
                 !.fr.shellMeshes = [k \in 1..Len(@) |-> [@[k] EXCEPT !.wind = windUniforms]]]

updateWind(s, deltaTime) ==
    updateWindUniforms([s EXCEPT !.ws = WindSimulation_update(s.ws, deltaTime)])

\* dispose(); FinGeometry.dispose() clears FinGeometry.finMeshes, a list
\* nothing ever adds to
FurRenderer_dispose(s) ==
    LET s1 == FurRenderer_clearShells(FurRenderer_clearFins(
                IF s.fr.currentMesh # "null" /\ s.fr.originalMaterial # 0
                THEN [s EXCEPT !.src[s.fr.currentMesh].material = s.fr.originalMaterial]
                ELSE s))
        s2 == [s1 EXCEPT !.heap.disposed =
                  @ \cup ({s1.fr.surfaceMaterial, s1.fr.finMaterial, s1.fr.shellMaterial}
                            \ {0})]
    IN [ShellGeometry_dispose(s2) EXCEPT !.ws = WindSimulation_dispose(s2.ws),
                                         !.fr.currentMesh = "null",
                                         !.fr.originalMaterial = 0]

(***************************************************************************)
(* The state machine.  A handler runs to completion on the object graph;   *)
(* lastOp and observed record which handler ran and what it did.           *)
(***************************************************************************)
Cur ==
    [ fr |-> furRenderer, sg |-> shellGeometry, fg |-> finGeometry,
      ws |-> windSimulation, src |-> sourceMeshes, scene |-> scene,
      heap |-> heap, obs |-> FreshObs, ret |-> returned ]

Commit(name, arg, t) ==
    /\ opCount < MaxOps
    /\ furRenderer' = t.fr
    /\ shellGeometry' = t.sg
    /\ finGeometry' = t.fg
    /\ windSimulation' = t.ws
    /\ sourceMeshes' = t.src
    /\ scene' = t.scene
    /\ heap' = t.heap
    /\ returned' = t.ret
    /\ observed' = t.obs
    /\ lastOp' = [name |-> name, arg |-> arg]
    /\ opCount' = opCount + 1
    /\ UNCHANGED <<baseMesh, windTwin, initCalls>>

\* init() has resolved: FurApp.setupFurRenderer awaits it before the UI is
\* wired and before a model is loaded (FurApp.js:54-66, 131-135)
Ready == furRenderer.surfaceMaterial # 0

\* Math.random() * 1000 per axis, in whole radians
NoiseOffsets == {<<0, 0, 0>>, <<137, 542, 911>>}

\* model A: an indexed quad; model B: one non-indexed triangle
LoadedMeshes ==
    [ A |-> MeshOf(IndexedGeometry(1, QuadIndex, 4), 1),
      B |-> MeshOf(NonIndexedGeometry(2, 1), 2) ]

Init ==
    /\ windSimulation \in {WindSimulation_new(n) : n \in NoiseOffsets}
    /\ windTwin = WindSimulation_new(<<0, 0, 0>>)
    /\ initCalls = <<<<>>>>
    /\ furRenderer = FurRenderer_new(windSimulation)
    /\ shellGeometry = ShellGeometry_new
    /\ finGeometry = FinGeometry_new
    /\ sourceMeshes = LoadedMeshes
    /\ scene = {}
    /\ heap = [nextId |-> 2, geometries |-> {}, materials |-> {}, disposed |-> {},
               userData |-> <<>>, written |-> {}]
    /\ baseMesh = NullMesh
    /\ returned = <<>>
    /\ lastOp = [name |-> "new", arg |-> 0]
    /\ observed = FreshObs
    /\ opCount = 0

Initialize ==
    /\ ~Ready
    /\ LET t == FurRenderer_init(Cur)
       IN /\ furRenderer' = t.fr
          /\ heap' = t.heap
          /\ initCalls' = <<<<t.fr.surfaceMaterial, t.fr.finMaterial, t.fr.shellMaterial>>>>
    /\ lastOp' = [name |-> "init", arg |-> 0]
    /\ observed' = FreshObs
    /\ UNCHANGED <<windTwin, windSimulation, shellGeometry, finGeometry, scene, sourceMeshes,
                   baseMesh, returned, opCount>>

\* deltaTime in seconds, milli (16 is 0.016 s); a clock may step backwards
DeltaTimes == {-16, 0, 16, 1000}

\* the wind pass-throughs of FurRenderer.js:1601-1827 call the WindSimulation
\* method of the same name
WindCall(name, arg, w) == Commit(name, arg, [Cur EXCEPT !.ws = w])

\* the geometry handlers of FurRenderer, the frame update and wind controls
Next ==
    \/ Initialize
    \/ Ready /\ \E mesh \in {"A", "B", "null"} :
         Commit("setMesh", mesh, FurRenderer_setMesh(Cur, mesh))
    \/ Ready /\ \E enabled \in BOOLEAN :
         Commit("setFinEnabled", enabled, FurRenderer_setFinEnabled(Cur, enabled))
    \/ Ready /\ \E length \in {50, 80} :
         Commit("setFinLength", length, FurRenderer_setFinLength(Cur, length))
    \/ Ready /\ \E count \in {100000, 2000000} :
         Commit("setMaxFinCount", count, FurRenderer_setMaxFinCount(Cur, count))
    \/ Ready /\ \E enabled \in BOOLEAN :
         Commit("setShellEnabled", enabled, FurRenderer_setShellEnabled(Cur, enabled))
    \/ Ready /\ \E count \in {8000, 24000} :
         Commit("setShellCount", count, FurRenderer_setShellCount(Cur, count))
    \/ Ready /\ \E spacing \in {5, 10} :
         Commit("setShellSpacing", spacing, FurRenderer_setShellSpacing(Cur, spacing))
    \/ Ready /\ \E distance \in {100, 200} :
         Commit("setMaxShellDistance", distance,
                FurRenderer_setMaxShellDistance(Cur, distance))
    \/ Ready /\ \E enabled \in BOOLEAN :
         Commit("setTaperingEnabled", enabled,
                FurRenderer_setTaperingEnabled(Cur, enabled))
    \/ Ready /\ \E intensity \in {700, 1500} :
         Commit("setTaperingIntensity", intensity,
                FurRenderer_setTaperingIntensity(Cur, intensity))
    \/ Ready /\ \E curve \in {"quadratic", "cubic"} :
         Commit("setTaperingCurve", curve, FurRenderer_setTaperingCurve(Cur, curve))
    \/ Ready /\ \E method \in {"hybrid", "normal"} :
         Commit("setTaperingMethod", method, FurRenderer_setTaperingMethod(Cur, method))
    \/ Ready /\ \E preset \in {"none", "subtle", "moderate", "strong", "extreme"} :
         Commit("applyTaperingPreset", preset,
                FurRenderer_applyTaperingPreset(Cur, preset))
    \/ Ready /\ \E enabled \in BOOLEAN :
         Commit("setFinTaperingEnabled", enabled,
                FurRenderer_setFinTaperingEnabled(Cur, enabled))
    \/ Ready /\ \E intensity \in {700, -200} :
         Commit("setFinTaperingIntensity", intensity,
                FurRenderer_setFinTaperingIntensity(Cur, intensity))
    \/ Ready /\ \E curve \in {"quadratic", "linear"} :
         Commit("setFinTaperingCurve", curve,
                FurRenderer_setFinTaperingCurve(Cur, curve))
    \/ Ready /\ \E method \in {"hybrid", "radial"} :
         Commit("setFinTaperingMethod", method,
                FurRenderer_setFinTaperingMethod(Cur, method))
    \/ Ready /\ \E preset \in {"none", "subtle", "moderate", "strong", "extreme"} :
         Commit("applyFinTaperingPreset", preset,
                FurRenderer_applyFinTaperingPreset(Cur, preset))
    \/ \E deltaTime \in DeltaTimes :
         Commit("updateWind", deltaTime, updateWind(Cur, deltaTime))
    \/ \E enabled \in BOOLEAN :
         WindCall("setWindEnabled", enabled, setWindEnabled(windSimulation, enabled))
    \/ WindCall("resetToCalm", 0, resetToCalm(windSimulation))
    \/ WindCall("applyStormPreset", 0, applyStormPreset(windSimulation))

Spec == Init /\ [][Next]_vars

(***************************************************************************)
(* The wind simulation on its own: every control of WindSimulation and the *)
(* frame update.                                                           *)
(***************************************************************************)
NextWind ==
    \/ \E deltaTime \in DeltaTimes :
         Commit("updateWind", deltaTime, updateWind(Cur, deltaTime))
    \/ \E enabled \in BOOLEAN :
         WindCall("setWindEnabled", enabled, setWindEnabled(windSimulation, enabled))
    \/ \E d \in {<<0, 0, 0>>, <<2000, -500, 0>>} :
         WindCall("setWindDirection", d,
                  setWindDirection(windSimulation, d[1], d[2], d[3]))
    \/ WindCall("setWindDirectionX", -2000, setWindDirectionX(windSimulation, -2000))
    \/ WindCall("setWindDirectionY", 0, setWindDirectionY(windSimulation, 0))
    \/ WindCall("setWindDirectionZ", 500, setWindDirectionZ(windSimulation, 500))
    \/ \E strength \in {0, 5000} :
         WindCall("setWindStrength", strength, setWindStrength(windSimulation, strength))
    \/ \E intensity \in {0, 900} :
         WindCall("setTurbulenceIntensity", intensity,
                  setTurbulenceIntensity(windSimulation, intensity))
    \/ WindCall("setTurbulenceFrequency", 100, setTurbulenceFrequency(windSimulation, 100))
    \/ \E strength \in {0, -300} :
         WindCall("setGustStrength", strength, setGustStrength(windSimulation, strength))
    \/ WindCall("setGustFrequency", 3000, setGustFrequency(windSimulation, 3000))
    \/ WindCall("setGustDuration", 500, setGustDuration(windSimulation, 500))
    \/ WindCall("setWindDampening", 100, setWindDampening(windSimulation, 100))
    \/ WindCall("setWindResponsiveness", 500, setWindResponsiveness(windSimulation, 500))
    \/ WindCall("setWindRandomnessIntensity", 1000,
                setWindRandomnessIntensity(windSimulation, 1000))
    \/ \E speed \in {0, 3000} :
         WindCall("setAnimationSpeed", speed, setAnimationSpeed(windSimulation, speed))
    \/ WindCall("applyGentleBreezePreset", 0, applyGentleBreezePreset(windSimulation))
    \/ WindCall("applyStrongWindPreset", 0, applyStrongWindPreset(windSimulation))
    \/ WindCall("applyStormPreset", 0, applyStormPreset(windSimulation))
    \/ WindCall("resetToCalm", 0, resetToCalm(windSimulation))

SpecWind == Init /\ [][NextWind]_vars

(***************************************************************************)
(* A FinGeometry driven directly with a mesh of its own.                   *)
(***************************************************************************)
FinMeshes ==
    {NullMesh, MeshOf(IndexedGeometry(1, QuadIndex, 4), 1),
     MeshOf(IndexedGeometry(3, TetraIndex, 4), 1), MeshOf(NonIndexedQuad, 1)}
      \cup {MeshOf(NonIndexedGeometry(4, t), 1) :
               t \in {0, 1, 67, 100, 134, 135, MaxTriangles}}

InitFins ==
    /\ Init
    /\ windSimulation.noiseOffset = <<0, 0, 0>>

FinCall(name, arg, fg, ret) ==
    /\ finGeometry' = fg
    /\ returned' = ret
    /\ lastOp' = [name |-> name, arg |-> arg]
    /\ UNCHANGED <<initCalls, windTwin, windSimulation, furRenderer, shellGeometry, scene, heap,
                   sourceMeshes, baseMesh, observed, opCount>>

NextFins ==
    \/ /\ lastOp.name = "new"
       /\ \E mesh \in FinMeshes : baseMesh' = mesh
       /\ lastOp' = [name |-> "load", arg |-> 0]
       /\ UNCHANGED <<initCalls, windTwin, windSimulation, furRenderer, shellGeometry, finGeometry, scene,
                      heap, sourceMeshes, returned, observed, opCount>>
    \/ \E count \in {200000, 300500, 1999999, 2000000} :
         FinCall("setMaxFinCount", count,
                 FinGeometry_setMaxFinCount(finGeometry, count), returned)
    \/ \E length \in {100, 250} :
         FinCall("setFinLength", length,
                 FinGeometry_setFinLength(finGeometry, length), returned)
    \/ lastOp.name # "new" /\
         FinCall("generateFins", 0, finGeometry,
                 FinGeometry_generateFins(finGeometry, baseMesh))

SpecFins == InitFins /\ [][NextFins]_vars

(***************************************************************************)
(* A ShellGeometry driven directly with a mesh of its own.  The spacing is *)
(* stepped up by 0.001 after a generation that missed the pool, so the     *)
(* next generation is a miss again; a repeated generation is a pool hit.   *)
(***************************************************************************)
MaxShellSpacing == 86

ShellCall(name, arg, t) ==
    /\ shellGeometry' = t.sg
    /\ heap' = t.heap
    /\ returned' = t.ret
    /\ observed' = t.obs
    /\ lastOp' = [name |-> name, arg |-> arg]
    /\ UNCHANGED <<initCalls, windTwin, windSimulation, furRenderer, finGeometry, scene, sourceMeshes,
                   baseMesh, opCount>>

NextShells ==
    \/ /\ lastOp.name = "new"
       /\ \E mesh \in {NullMesh, MeshOf(IndexedGeometry(1, QuadIndex, 4), 1),
                       MeshOf(NonIndexedGeometry(5, 2), 1)} : baseMesh' = mesh
       /\ lastOp' = [name |-> "load", arg |-> 0]
       /\ UNCHANGED <<initCalls, windTwin, windSimulation, furRenderer, shellGeometry, finGeometry, scene,
                      heap, sourceMeshes, returned, observed, opCount>>
    \/ shellGeometry.geometryPool = <<>> /\ \E count \in {8000, 50000} :
         ShellCall("setShellCount", count, ShellGeometry_setShellCount(Cur, count))
    \/ shellGeometry.geometryPool = <<>> /\ \E distance \in {5, 250} :
         ShellCall("setMaxShellDistance", distance,
                   ShellGeometry_setMaxShellDistance(Cur, distance))
    \/ lastOp.name = "generateShells" /\ shellGeometry.shellSpacing < MaxShellSpacing /\
       Elems(returned) \cap PooledGeometries(shellGeometry) = {} /\
         ShellCall("setShellSpacing", shellGeometry.shellSpacing + 1,
                   ShellGeometry_setShellSpacing(Cur, shellGeometry.shellSpacing + 1))
    \/ lastOp.name # "new" /\
         ShellCall("generateShells", 0, ShellGeometry_generateShells(Cur, baseMesh))

SpecShells == InitFins /\ [][NextShells]_vars

(***************************************************************************)
(* The renderer handed meshes whose geometry lacks an attribute or has no  *)
(* triangle, with or without a pass through ModelLoader.prepareMeshForFur  *)
(* (src/unnamed/part_003:203-255).                                         *)
(***************************************************************************)
\* P: no attribute at all; N: a quad without normals; Z, Y: no triangle,
\* non-indexed and indexed; A: a complete quad
BareMeshes ==
    [ P |-> MeshOf(EmptyGeometry(3), 1),
      N |-> MeshOf(WithoutNormal(IndexedGeometry(4, QuadIndex, 4)), 1),
      Z |-> MeshOf(NonIndexedGeometry(5, 0), 2),
      Y |-> MeshOf(IndexedGeometry(6, <<>>, 4), 2),
      A |-> MeshOf(IndexedGeometry(1, QuadIndex, 4), 1) ]

\* prepareMeshForFur that goes on without looking for the positions
prepareMeshForFur_NoCheck(s, mesh) ==
    [s EXCEPT !.src[mesh].geometry.normal = s.src[mesh].geometry.position]

\* the uv and tangent attributes it adds are not modelled
prepareMeshForFur(s, mesh) ==
    IF ~s.src[mesh].geometry.position
    THEN [s EXCEPT !.obs.error = "Error"]
    ELSE [s EXCEPT !.src[mesh].geometry.normal = TRUE]

InitAttrs ==
    /\ windSimulation = WindSimulation_new(<<0, 0, 0>>)
    /\ windTwin = WindSimulation_new(<<0, 0, 0>>)
    /\ initCalls = <<<<>>>>
    /\ furRenderer = FurRenderer_new(windSimulation)
    /\ shellGeometry = ShellGeometry_new
    /\ finGeometry = FinGeometry_new
    /\ sourceMeshes = BareMeshes
    /\ scene = {}
    /\ heap = [nextId |-> 2, geometries |-> {}, materials |-> {}, disposed |-> {},
               userData |-> <<>>, written |-> {}]
    /\ baseMesh = NullMesh
    /\ returned = <<>>
    /\ lastOp = [name |-> "new", arg |-> 0]
    /\ observed = FreshObs
    /\ opCount = 0

NextAttrs ==
    \/ Initialize
    \/ \E mesh \in DOMAIN BareMeshes :
         Commit("prepareMeshForFur", mesh, prepareMeshForFur(Cur, mesh))
    \/ Ready /\ \E mesh \in DOMAIN BareMeshes \cup {"null"} :
         Commit("setMesh", mesh, FurRenderer_setMesh(Cur, mesh))
    \/ Ready /\ \E enabled \in BOOLEAN :
         Commit("setFinEnabled", enabled, FurRenderer_setFinEnabled(Cur, enabled))
    \/ Ready /\ \E enabled \in BOOLEAN :
         Commit("setShellEnabled", enabled, FurRenderer_setShellEnabled(Cur, enabled))
    \/ Ready /\ Commit("applyTaperingPreset", "strong",
                       FurRenderer_applyTaperingPreset(Cur, "strong"))
    \/ Ready /\ Commit("applyFinTaperingPreset", "strong",
                       FurRenderer_applyFinTaperingPreset(Cur, "strong"))

SpecAttrs == InitAttrs /\ [][NextAttrs]_vars

(***************************************************************************)
(* Two WindSimulation instances side by side.  Both are configured with    *)
(* the same setter calls before either is updated; after that each is      *)
(* updated on its own, with its own deltaTime values.                      *)
(***************************************************************************)
TwinCall(name, arg, w, twin) ==
    /\ opCount < MaxOps
    /\ windSimulation' = w
    /\ windTwin' = twin
    /\ lastOp' = [name |-> name, arg |-> arg]
    /\ opCount' = opCount + 1
    /\ UNCHANGED <<initCalls, furRenderer, shellGeometry, finGeometry, scene, heap,
                   sourceMeshes, baseMesh, returned, observed>>

NextTwins ==
    \/ \E deltaTime \in DeltaTimes :
         TwinCall("update", deltaTime,
                  WindSimulation_update(windSimulation, deltaTime), windTwin)
    \/ \E deltaTime \in DeltaTimes :
         TwinCall("twin.update", deltaTime,
                  windSimulation, WindSimulation_update(windTwin, deltaTime))
    \/ windSimulation.updateCount = 0 /\ windTwin.updateCount = 0 /\
       \E intensity \in {0, 900} :
         TwinCall("setTurbulenceIntensity", intensity,
                  setTurbulenceIntensity(windSimulation, intensity),
                  setTurbulenceIntensity(windTwin, intensity))
    \/ windSimulation.updateCount = 0 /\ windTwin.updateCount = 0 /\
       \E responsiveness \in {500, 1000} :
         TwinCall("setWindResponsiveness", responsiveness,
                  setWindResponsiveness(windSimulation, responsiveness),
                  setWindResponsiveness(windTwin, responsiveness))

SpecTwins == Init /\ [][NextTwins]_vars

(***************************************************************************)
(* Every WindSimulation setter called with a value below, inside and above *)
(* its range, and the four presets, in sequences of MaxWindCalls calls.    *)
(***************************************************************************)
MaxWindCalls == 2

\* -5 and 9 are outside every range; 0.05 is under the 0.1 and 0.5 floors
RangeProbes == {-5000, 50, 600, 9000}

NextRanges ==
    /\ opCount < MaxWindCalls
    /\ \/ \E x \in RangeProbes :
            WindCall("setWindDirectionX", x, setWindDirectionX(windSimulation, x))
       \/ \E y \in RangeProbes :
            WindCall("setWindDirectionY", y, setWindDirectionY(windSimulation, y))
       \/ \E z \in RangeProbes :
            WindCall("setWindDirectionZ", z, setWindDirectionZ(windSimulation, z))
       \/ \E x \in {-5000, 9000}, y \in {50, 9000} :
            WindCall("setWindDirection", x + y, setWindDirection(windSimulation, x, y, 600))
       \/ \E v \in RangeProbes :
            WindCall("setWindStrength", v, setWindStrength(windSimulation, v))
       \/ \E v \in RangeProbes :
            WindCall("setTurbulenceIntensity", v, setTurbulenceIntensity(windSimulation, v))
       \/ \E v \in RangeProbes :
            WindCall("setTurbulenceFrequency", v, setTurbulenceFrequency(windSimulation, v))
       \/ \E v \in RangeProbes :
            WindCall("setGustStrength", v, setGustStrength(windSimulation, v))
       \/ \E v \in RangeProbes :
            WindCall("setGustFrequency", v, setGustFrequency(windSimulation, v))
       \/ \E v \in RangeProbes :
            WindCall("setGustDuration", v, setGustDuration(windSimulation, v))
       \/ \E v \in RangeProbes :
            WindCall("setWindDampening", v, setWindDampening(windSimulation, v))
       \/ \E v \in RangeProbes :
            WindCall("setWindResponsiveness", v, setWindResponsiveness(windSimulation, v))
       \/ \E v \in RangeProbes :
            WindCall("setWindRandomnessIntensity", v,
                     setWindRandomnessIntensity(windSimulation, v))
       \/ \E v \in RangeProbes :
            WindCall("setAnimationSpeed", v, setAnimationSpeed(windSimulation, v))
       \/ WindCall("applyGentleBreezePreset", 0, applyGentleBreezePreset(windSimulation))
       \/ WindCall("applyStrongWindPreset", 0, applyStrongWindPreset(windSimulation))
       \/ WindCall("applyStormPreset", 0, applyStormPreset(windSimulation))
       \/ WindCall("resetToCalm", 0, resetToCalm(windSimulation))

SpecRanges == InitFins /\ [][NextRanges]_vars

(***************************************************************************)
(* The three shell parameters of the renderer set to values below, inside  *)
(* and above their ranges, with and without a mesh and with the shells     *)
(* enabled and disabled.                                                   *)
(***************************************************************************)
NextShellParams ==
    \/ Initialize
    \/ Ready /\ \E mesh \in {"A", "null"} :
         Commit("setMesh", mesh, FurRenderer_setMesh(Cur, mesh))
    \/ Ready /\ \E enabled \in BOOLEAN :
         Commit("setShellEnabled", enabled, FurRenderer_setShellEnabled(Cur, enabled))
    \/ Ready /\ \E count \in {-3000, 7999, 12500, 99000} :
         Commit("setShellCount", count, FurRenderer_setShellCount(Cur, count))
    \/ Ready /\ \E spacing \in {-5, 0, 7} :
         Commit("setShellSpacing", spacing, FurRenderer_setShellSpacing(Cur, spacing))
    \/ Ready /\ \E distance \in {-100, 9, 150} :
         Commit("setMaxShellDistance", distance,
                FurRenderer_setMaxShellDistance(Cur, distance))

SpecShellParams == InitFins /\ [][NextShellParams]_vars

(***************************************************************************)
(* A ShellGeometry driven directly, and a caller that stores into the      *)
(* position or normal array of a layer it was returned.  heap.written is   *)
(* the set of arrays whose values were changed after they were filled.     *)
(***************************************************************************)
MaxWrites == 2

NextBuffers ==
    \/ /\ lastOp.name = "new"
       /\ \E mesh \in {MeshOf(IndexedGeometry(1, QuadIndex, 4), 1),
                       MeshOf(NonIndexedGeometry(5, 2), 1),
                       MeshOf(WithoutNormal(NonIndexedGeometry(6, 1)), 1)} :
            baseMesh' = mesh
       /\ lastOp' = [name |-> "load", arg |-> 0]
       /\ UNCHANGED <<initCalls, windTwin, windSimulation, furRenderer, shellGeometry, finGeometry, scene,
                      heap, sourceMeshes, returned, observed, opCount>>
    \/ shellGeometry.geometryPool = <<>> /\
         ShellCall("setShellCount", 8000, ShellGeometry_setShellCount(Cur, 8000))
    \/ shellGeometry.maxShellDistance # 250 /\
         ShellCall("setMaxShellDistance", 250,
                   ShellGeometry_setMaxShellDistance(Cur, 250))
    \/ lastOp.name # "new" /\
         ShellCall("generateShells", 0, ShellGeometry_generateShells(Cur, baseMesh))
    \/ /\ lastOp.name \in {"generateShells", "write"}
       /\ returned # <<>>
       /\ Cardinality(heap.written) < MaxWrites
       /\ \E k \in {1, Len(returned)}, attr \in {"position", "normal"} :
            /\ heap' = [heap EXCEPT !.written =
                           @ \cup {ArrayOf(heap.userData[returned[k]], returned[k], attr)}]
            /\ lastOp' = [name |-> "write", arg |-> <<k, attr>>]
       /\ UNCHANGED <<initCalls, windTwin, windSimulation, furRenderer, shellGeometry, finGeometry, scene,
                      sourceMeshes, baseMesh, returned, observed, opCount>>

SpecBuffers == InitFins /\ [][NextBuffers]_vars

(***************************************************************************)
(* The start of the application.  The constructor calls init() without     *)
(* awaiting it, and FurApp.setupFurRenderer calls init() again in the same *)
(* turn and awaits that second call.  Each call is a chain of three steps, *)
(* createSurfaceRenderer, createFinRenderer and createShellRenderer, each  *)
(* resumed when its shader loads resolve, in any order between the two     *)
(* chains.  The application sets a model once the call it awaits has       *)
(* resolved, and may dispose the renderer afterwards.                      *)
(***************************************************************************)
AppReady == Len(initCalls) = 2 /\ Len(initCalls[2]) = 3

Disposed == windSimulation.finalWindVector = <<>>

NextInit ==
    \/ /\ initCalls = <<<<>>>>
       /\ initCalls' = Append(initCalls, <<>>)
       /\ lastOp' = [name |-> "init", arg |-> 0]
       /\ UNCHANGED <<windTwin, windSimulation, furRenderer, shellGeometry, finGeometry,
                      scene, heap, sourceMeshes, baseMesh, returned, observed, opCount>>
    \/ \E i \in 1..Len(initCalls) :
         /\ Len(initCalls[i]) < 3
         /\ LET t == CASE Len(initCalls[i]) = 0 -> createSurfaceRenderer(Cur)
                       [] Len(initCalls[i]) = 1 -> createFinRenderer(Cur)
                       [] Len(initCalls[i]) = 2 -> createShellRenderer(Cur)
            IN /\ furRenderer' = t.fr
               /\ heap' = t.heap
               /\ initCalls' = [initCalls EXCEPT ![i] = Append(@, t.heap.nextId)]
         /\ lastOp' = [name |-> "init.resume", arg |-> i]
         /\ UNCHANGED <<windTwin, windSimulation, shellGeometry, finGeometry, scene,
                        sourceMeshes, baseMesh, returned, observed, opCount>>
    \/ AppReady /\ ~Disposed /\ \E mesh \in {"A", "B"} :
         Commit("setMesh", mesh, FurRenderer_setMesh(Cur, mesh))
    \/ AppReady /\ ~Disposed /\
         Commit("dispose", 0, FurRenderer_dispose(Cur))

SpecInit == InitFins /\ [][NextInit]_vars

(***************************************************************************)
(* The application switching models.  FurApp.currentMesh and the           *)
(* renderer's currentMesh are assigned together by setCurrentModel, so the *)
(* application's field is read from the renderer.  A loaded mesh and its   *)
(* geometry are identified by the negated uuid of the geometry, which no   *)
(* material id and no id allocated from heap.nextId equals.                *)
(***************************************************************************)
SourceId(mesh) == -mesh.geometry.uuid

\* the "Remove previous" block of setCurrentModel and of FurApp.dispose
RemovePrevious(s, current) ==
    IF current = "null"
    THEN s
    ELSE [s EXCEPT !.scene = @ \ {SourceId(s.src[current])},
                   !.heap.disposed = @ \cup {SourceId(s.src[current])}
                                       \cup (IF s.src[current].material # 0
                                             THEN {s.src[current].material}
                                             ELSE {})]

FurApp_setCurrentModel(s, mesh) ==
    LET s1 == RemovePrevious(s, s.fr.currentMesh)
    IN FurRenderer_setMesh([s1 EXCEPT !.scene = @ \cup {SourceId(s1.src[mesh])}], mesh)

FurApp_dispose(s) ==
    RemovePrevious(FurRenderer_dispose(s), s.fr.currentMesh)

NextApp ==
    \/ Initialize
    \/ Ready /\ ~Disposed /\ \E mesh \in {"A", "B"} :
         /\ mesh # furRenderer.currentMesh
         /\ Commit("setCurrentModel", mesh, FurApp_setCurrentModel(Cur, mesh))
    \/ Ready /\ ~Disposed /\ \E enabled \in BOOLEAN :
         Commit("setFinEnabled", enabled, FurRenderer_setFinEnabled(Cur, enabled))
    \/ Ready /\ ~Disposed /\ \E enabled \in BOOLEAN :
         Commit("setShellEnabled", enabled, FurRenderer_setShellEnabled(Cur, enabled))
    \/ Ready /\ ~Disposed /\
         Commit("dispose", 0, FurApp_dispose(Cur))

SpecApp == InitFins /\ [][NextApp]_vars

(***************************************************************************)
(* calculateTaperingScale of the two builders, over tapering               *)
(* configurations and positions.  The curve "cubic" stands for a           *)
(* taperingCurve field holding none of the three names, which only an      *)
(* assignment to the field can produce.                                    *)
(***************************************************************************)
InitTaper ==
    /\ \E enabled \in BOOLEAN, intensity \in {0, 300, 700, 1000},
          curve \in {"linear", "quadratic", "exponential", "cubic"},
          method \in {"centroid", "normal", "hybrid"} :
         /\ shellGeometry = [ShellGeometry_new EXCEPT !.taperingEnabled = enabled,
                                                      !.taperingIntensity = intensity,
                                                      !.taperingCurve = curve,
                                                      !.taperingMethod = method]
         /\ finGeometry = [FinGeometry_new EXCEPT !.taperingEnabled = enabled,
                                                  !.taperingIntensity = intensity,
                                                  !.taperingCurve = curve,
                                                  !.taperingMethod = method]
    /\ windSimulation = WindSimulation_new(<<0, 0, 0>>)
    /\ windTwin = WindSimulation_new(<<0, 0, 0>>)
    /\ initCalls = <<<<>>>>
    /\ furRenderer = FurRenderer_new(windSimulation)
    /\ sourceMeshes = LoadedMeshes
    /\ scene = {}
    /\ heap = [nextId |-> 2, geometries |-> {}, materials |-> {}, disposed |-> {},
               userData |-> <<>>, written |-> {}]
    /\ baseMesh = NullMesh
    /\ returned = <<>>
    /\ lastOp = [name |-> "new", arg |-> 0]
    /\ observed = FreshObs
    /\ opCount = 0

NextTaper ==
    \/ \E normalizedLayer \in {0, 250, 500, 750, 1000} :
         FinCall("ShellGeometry.calculateTaperingScale", normalizedLayer, finGeometry,
                 <<ShellGeometry_calculateTaperingScale(shellGeometry, normalizedLayer)>>)
    \/ \E normalizedPosition \in {0, 250, 500, 750, 1000} :
         FinCall("FinGeometry.calculateTaperingScale", normalizedPosition, finGeometry,
                 <<FinGeometry_calculateTaperingScale(finGeometry, normalizedPosition)>>)

SpecTaper == InitTaper /\ [][NextTaper]_vars

(***************************************************************************)
(* The curve and method setters of the renderer and of the two builders,   *)
(* each called with a valid and with an invalid string, on a renderer with *)
(* or without a current mesh.                                              *)
(***************************************************************************)
NextEnums ==
    \/ Initialize
    \/ Ready /\ \E mesh \in {"A", "null"} :
         Commit("setMesh", mesh, FurRenderer_setMesh(Cur, mesh))
    \/ Ready /\ \E curve \in {"exponential", "cubic"} :
         Commit("setTaperingCurve", curve, FurRenderer_setTaperingCurve(Cur, curve))
    \/ Ready /\ \E method \in {"centroid", "radial"} :
         Commit("setTaperingMethod", method, FurRenderer_setTaperingMethod(Cur, method))
    \/ Ready /\ \E curve \in {"linear", "Quadratic"} :
         Commit("setFinTaperingCurve", curve,
                FurRenderer_setFinTaperingCurve(Cur, curve))
    \/ Ready /\ \E method \in {"normal", ""} :
         Commit("setFinTaperingMethod", method,
                FurRenderer_setFinTaperingMethod(Cur, method))
    \/ \E curve \in {"linear", "cubic"} :
         Commit("ShellGeometry.setTaperingCurve", curve,
                ShellGeometry_setTaperingCurve(Cur, curve))
    \/ \E method \in {"normal", "radial"} :
         Commit("ShellGeometry.setTaperingMethod", method,
                ShellGeometry_setTaperingMethod(Cur, method))
    \/ \E curve \in {"exponential", "smooth"} :
         Commit("FinGeometry.setTaperingCurve", curve,
                [Cur EXCEPT !.fg = FinGeometry_setTaperingCurve(finGeometry, curve)])
    \/ \E method \in {"centroid", "Hybrid"} :
         Commit("FinGeometry.setTaperingMethod", method,
                [Cur EXCEPT !.fg = FinGeometry_setTaperingMethod(finGeometry, method)])

SpecEnums == Init /\ [][NextEnums]_vars

(***************************************************************************)
(* Properties.                                                             *)
(***************************************************************************)

\* C1: the number of fins FinGeometry.generateFins returns is at most
\* maxFinCount, for every mesh and every maxFinCount.
C1_FinCountCapped ==
    lastOp.name = "generateFins" => Len(returned) <= finGeometry.maxFinCount

\* C2: pooled shell geometries belong to the pool alone: no pooled geometry
\* is the geometry of a handed-out layer or of a shell mesh, and none is
\* disposed while its entry is in the pool.
C2_PoolOwnsItsGeometries ==
    LET pooled == PooledGeometries(shellGeometry)
    IN /\ pooled \cap Elems(shellGeometry.shellGeometries) = {}
       /\ pooled \cap Elems(returned) = {}
       /\ pooled \cap GeometryIds(furRenderer.shellMeshes) = {}
       /\ pooled \cap heap.disposed = {}

\* C3: a geometry-affecting setter called with the current value, while a
\* mesh is set and the feature is enabled, runs no builder and leaves the
\* live fin and shell meshes as they were.
C3_SameValueNoRegeneration ==
    [][LET op == lastOp'
           fr == furRenderer
           shellCall ==
               \/ op.name = "setShellCount" /\ op.arg = 1000 * fr.shellCount
               \/ op.name = "setShellSpacing" /\ op.arg = fr.shellSpacing
               \/ op.name = "setMaxShellDistance" /\ op.arg = fr.maxShellDistance
               \/ op.name = "setTaperingEnabled" /\ op.arg = fr.taperingEnabled
               \/ op.name = "setTaperingIntensity" /\ op.arg = fr.taperingIntensity
               \/ op.name = "setTaperingCurve" /\ op.arg = fr.taperingCurve
               \/ op.name = "setTaperingMethod" /\ op.arg = fr.taperingMethod
           finCall ==
               \/ op.name = "setFinLength" /\ op.arg = fr.finLength
               \/ op.name = "setMaxFinCount" /\ op.arg = 1000 * fr.maxFinCount
               \/ op.name = "setFinTaperingEnabled" /\ op.arg = fr.finTaperingEnabled
               \/ op.name = "setFinTaperingIntensity" /\ op.arg = fr.finTaperingIntensity
               \/ op.name = "setFinTaperingCurve" /\ op.arg = fr.finTaperingCurve
               \/ op.name = "setFinTaperingMethod" /\ op.arg = fr.finTaperingMethod
       IN (/\ fr.currentMesh # "null"
           /\ \/ fr.shellEnabled /\ shellCall
              \/ fr.finEnabled /\ finCall)
          => /\ observed'.regenerations = 0
             /\ furRenderer'.shellMeshes = fr.shellMeshes
             /\ furRenderer'.finMeshes = fr.finMeshes
             /\ scene' = scene]_vars

\* C4: applying the tapering preset 'subtle', 'moderate' or 'strong' while a
\* mesh is set (and the feature is on) runs the builder exactly once, and
\* every set it installs is built from the complete preset.
C4_PresetOneRegeneration ==
    [][LET op == lastOp'
           isPreset == /\ op.name \in {"applyTaperingPreset", "applyFinTaperingPreset"}
                       /\ op.arg \in {"subtle", "moderate", "strong"}
                       /\ furRenderer.currentMesh # "null"
                       /\ IF op.name = "applyTaperingPreset"
                          THEN furRenderer.shellEnabled
                          ELSE furRenderer.finEnabled
           v == TaperingPresetValues(op.arg)
           complete(built) == /\ built.enabled
                              /\ built.intensity = v.intensity
                              /\ built.curve = v.curve
                              /\ built.method = v.method
       IN isPreset
          => /\ observed'.regenerations = 1
             /\ \A i \in 1..Len(observed'.installs) : complete(observed'.installs[i])]_vars

\* C5: a regeneration installs its new meshes only after every mesh of the
\* previous set has left the scene and its geometry is disposed; and every
\* geometry ever created is on a live mesh, in the pool, or disposed.
C5_DisposeBeforeInstall ==
    LET live(meshes) == {meshes[i].geometry :
                            i \in {j \in 1..Len(meshes) : meshes[j].id \in scene}}
    IN /\ observed.stale = {}
       /\ heap.geometries \subseteq
              live(furRenderer.finMeshes) \cup live(furRenderer.shellMeshes)
                \cup PooledGeometries(shellGeometry) \cup heap.disposed

\* a regeneration has replaced a non-empty fin set and a non-empty shell set
C5_Witness ==
    /\ lastOp.name = "setMesh"
    /\ observed.regenerations = 2
    /\ heap.disposed # {}
    /\ furRenderer.finMeshes # <<>>
    /\ furRenderer.shellMeshes # <<>>

\* C6: maxFinCount is an integer in [200, 2000] in every reachable state of
\* FurRenderer and of FinGeometry, the freshly constructed one included.
C6_MaxFinCountInRange ==
    /\ furRenderer.maxFinCount \in 200..2000
    /\ finGeometry.maxFinCount \in 200..2000

\* C7: whenever wind is disabled the output force finalWindVector is zero,
\* in particular after update(deltaTime) with wind disabled.
C7_DisabledWindIsZero ==
    ~windSimulation.windEnabled => windSimulation.finalWindVector = Zero3

\* an update ran with wind disabled after time had accumulated
C7_Witness ==
    /\ ~windSimulation.windEnabled
    /\ lastOp.name = "updateWind"
    /\ lastOp.arg # 0
    /\ windSimulation.time > 0

\* C8: an update with deltaTime >= 0 adds exactly deltaTime * animationSpeed
\* to the accumulated time while wind is enabled and leaves it unchanged while
\* disabled, so time never decreases; no setter or preset changes time.
C8_TimeMonotone ==
    [][LET w == windSimulation
       IN IF lastOp'.name = "updateWind"
          THEN lastOp'.arg >= 0 =>
                 /\ windSimulation'.time >= w.time
                 /\ windSimulation'.time =
                      IF w.windEnabled THEN w.time + lastOp'.arg * w.animationSpeed
                                       ELSE w.time
          ELSE windSimulation'.time = w.time]_vars

\* an update at animationSpeed 3 advanced time from zero by 3 * deltaTime
C8_Witness ==
    /\ lastOp.name = "updateWind"
    /\ lastOp.arg > 0
    /\ windSimulation.animationSpeed = 3000
    /\ windSimulation.time = 3000 * lastOp.arg

\* C9: with a zero base force (windStrength = 0 or a zero direction),
\* turbulenceIntensity = 0 and gustStrength = 0, every update leaves
\* finalWindVector = (0,0,0).
C9_CalmStaysZero ==
    (/\ lastOp.name = "updateWind"
     /\ windSimulation.windStrength = 0 \/ windSimulation.windDirection = Zero3
     /\ windSimulation.turbulenceIntensity = 0
     /\ windSimulation.gustStrength = 0)
    => windSimulation.finalWindVector = Zero3

\* wind blew, resetToCalm was called, and an enabled update followed
C9_Witness ==
    /\ lastOp.name = "updateWind"
    /\ lastOp.arg > 0
    /\ windSimulation.windEnabled
    /\ windSimulation.updateCount = 2
    /\ windSimulation.windStrength = 0
    /\ windSimulation.windDirection = Zero3
    /\ windSimulation.turbulenceIntensity = 0
    /\ windSimulation.gustStrength = 0

\* C10: when updateWind returns, the wind uniforms of every live fin mesh
\* material and shell mesh material equal WindSimulation.getShaderUniforms().
C10_UniformsPushed ==
    lastOp.name = "updateWind" =>
        LET windUniforms == getShaderUniforms(windSimulation)
        IN /\ \A i \in 1..Len(furRenderer.finMeshes) :
                furRenderer.finMeshes[i].wind = windUniforms
           /\ \A i \in 1..Len(furRenderer.shellMeshes) :
                furRenderer.shellMeshes[i].wind = windUniforms

\* updateWind ran with live fin and shell meshes whose uniforms were stale
C10_Witness ==
    /\ lastOp.name = "updateWind"
    /\ furRenderer.finMeshes # <<>>
    /\ furRenderer.shellMeshes # <<>>
    /\ windSimulation.time > 0
    /\ windSimulation.finalWindVector # Zero3

\* C11: the shell geometry pool never holds more than maxPoolSize (64)
\* entries; an insertion into a full pool evicts exactly the earliest
\* inserted entry and disposes all of its geometries.
C11_PoolBounded ==
    [][LET pool == shellGeometry.geometryPool
           miss == /\ lastOp'.name = "generateShells"
                   /\ baseMesh.valid
                   /\ PoolIndex(pool, generatePoolKey(shellGeometry, baseMesh.geometry,
                                                      shellGeometry.shellCount)) = 0
       IN /\ Len(shellGeometry'.geometryPool) <= shellGeometry.maxPoolSize
          /\ (miss /\ Len(pool) = shellGeometry.maxPoolSize)
             => /\ Len(shellGeometry'.geometryPool) = Len(pool)
                /\ SubSeq(shellGeometry'.geometryPool, 1, Len(pool) - 1) = Tail(pool)
                /\ Elems(pool[1].geometries) \subseteq heap'.disposed]_vars

\* the pool is full and its first entry has been evicted
C11_Witness ==
    /\ lastOp.name = "generateShells"
    /\ Len(shellGeometry.geometryPool) = shellGeometry.maxPoolSize
    /\ shellGeometry.geometryPool[1].key[4] > 20
    /\ \E i \in 1..Len(returned) : returned[i] \notin heap.disposed

\* C12: a curve or method setter of FurRenderer, ShellGeometry or
\* FinGeometry called with a string outside its valid set raises no error,
\* changes no parameter, regenerates nothing and disposes nothing.
C12_InvalidEnumIgnored ==
    [][LET op == lastOp'
           curveSetter  == op.name \in {"setTaperingCurve", "setFinTaperingCurve",
                                        "ShellGeometry.setTaperingCurve",
                                        "FinGeometry.setTaperingCurve"}
           methodSetter == op.name \in {"setTaperingMethod", "setFinTaperingMethod",
                                        "ShellGeometry.setTaperingMethod",
                                        "FinGeometry.setTaperingMethod"}
           invalid == \/ curveSetter /\ op.arg \notin {"linear", "quadratic", "exponential"}
                      \/ methodSetter /\ op.arg \notin {"centroid", "normal", "hybrid"}
       IN invalid => /\ furRenderer' = furRenderer
                     /\ shellGeometry' = shellGeometry
                     /\ finGeometry' = finGeometry
                     /\ scene' = scene
                     /\ heap' = heap
                     /\ observed'.regenerations = 0
                     /\ observed'.error = "none"]_vars

\* the shell builder holds the layers of a generated set when its method
\* setter is handed an unknown method
C12_Witness ==
    /\ lastOp.name = "ShellGeometry.setTaperingMethod"
    /\ lastOp.arg = "radial"
    /\ shellGeometry.shellGeometries # <<>>
    /\ furRenderer.shellMeshes # <<>>

\* C13: on a source mesh whose geometry has no position attribute,
\* prepareMeshForFur raises an error, and so does setMesh when it generates
\* fins or shells; when the error is raised no fin or shell geometry has
\* been created and nothing has been added to the scene.
C13_MissingPositionFails ==
    [][LET op == lastOp'
           bare(m) == m # "null" /\ ~sourceMeshes[m].geometry.position
           nothingBuilt == /\ heap'.geometries = heap.geometries
                           /\ scene' \subseteq scene
                           /\ furRenderer'.finMeshes = <<>>
                           /\ furRenderer'.shellMeshes = <<>>
       IN /\ (op.name = "prepareMeshForFur" /\ bare(op.arg))
             => /\ observed'.error # "none"
                /\ heap' = heap /\ scene' = scene /\ furRenderer' = furRenderer
          /\ (op.name = "setMesh" /\ bare(op.arg)
                /\ (furRenderer.finEnabled \/ furRenderer.shellEnabled))
             => observed'.error # "none" /\ nothingBuilt
          /\ (observed'.error # "none" /\ bare(furRenderer'.currentMesh))
             => nothingBuilt]_vars

\* setMesh, fins off and shells on, replaced a furred mesh by one without
\* positions and raised the shell builder's error
C13_Witness ==
    /\ lastOp.name = "setMesh"
    /\ lastOp.arg = "P"
    /\ observed.error = "TypeError"
    /\ ~furRenderer.finEnabled
    /\ furRenderer.shellEnabled
    /\ heap.geometries # {}

\* C14: when setMesh, with fins and shells enabled, is given a mesh whose
\* geometry has positions but no normals, the normals are computed before a
\* builder reads them: the call raises no error and leaves the geometry
\* with normals.
C14_NormalsComputedBeforeUse ==
    (/\ lastOp.name = "setMesh"
     /\ lastOp.arg # "null"
     /\ sourceMeshes[lastOp.arg].geometry.position
     /\ furRenderer.finEnabled
     /\ furRenderer.shellEnabled)
    => /\ observed.error = "none"
       /\ sourceMeshes[lastOp.arg].geometry.normal

\* C15: setMesh on a source mesh with zero triangles raises no error and
\* yields an empty geometry set: the renderer ends with no fin meshes and no
\* shell meshes.
C15_NoTrianglesNoGeometry ==
    (/\ lastOp.name = "setMesh"
     /\ lastOp.arg # "null"
     /\ LET geometry == sourceMeshes[lastOp.arg].geometry
        IN /\ geometry.position
           /\ geometry.normal
           /\ IF geometry.indexed THEN geometry.index = <<>> ELSE geometry.vertexCount = 0)
    => /\ observed.error = "none"
       /\ furRenderer.finMeshes = <<>>
       /\ furRenderer.shellMeshes = <<>>

\* C16: the wind force is a function of the accumulated time and the
\* parameters alone: two instances with equal parameters and equal
\* accumulated time have the same finalWindVector after update, whatever
\* deltaTime values led there and whichever instance computed it.
C16_WindDeterministic ==
    LET parameters(w) ==
            << w.windDirection, w.windStrength, w.turbulenceIntensity,
               w.turbulenceFrequency, w.gustStrength, w.gustFrequency, w.gustDuration,
               w.windDampening, w.windResponsiveness, w.windRandomnessIntensity,
               w.animationSpeed, w.windEnabled >>
    IN (/\ windSimulation.updateCount > 0
        /\ windTwin.updateCount > 0
        /\ parameters(windSimulation) = parameters(windTwin)
        /\ windSimulation.time = windTwin.time)
       => windSimulation.finalWindVector = windTwin.finalWindVector

\* C17: below the cap, generateFins yields one fin per distinct unordered
\* pair of source vertices that form a triangle edge, for indexed and
\* non-indexed geometry alike; a quad of two triangles yields 5 fins.
C17_OneFinPerSourceEdge ==
    LET geometry == baseMesh.geometry
        corner(v) == IF geometry.corners = <<>> THEN v ELSE geometry.corners[v + 1]
        vertex(k) == IF geometry.indexed THEN geometry.index[k + 1] ELSE k
        slots == IF geometry.indexed THEN Len(geometry.index) ELSE geometry.vertexCount
        sourceEdges ==
            { {corner(vertex(3 * f + c)), corner(vertex(3 * f + ((c + 1) % 3)))} :
                f \in 0..(slots \div 3 - 1), c \in 0..2 }
    IN (/\ lastOp.name = "generateFins"
        /\ baseMesh.valid
        /\ Cardinality(sourceEdges) <= finGeometry.maxFinCount)
       => Len(returned) = Cardinality(sourceEdges)

\* C18: for a source mesh of F triangles and shellCount n, generateShells
\* returns n layers, on a pool miss and on a pool hit; layer i is
\* non-indexed, has 3 * F vertices and is tagged with layer index i, total
\* n and normalizedLayer i / n.
C18_LayersCountedAndTagged ==
    LET n == shellGeometry.shellCount
        F == IF baseMesh.geometry.indexed
             THEN Len(baseMesh.geometry.index) \div 3
             ELSE baseMesh.geometry.vertexCount \div 3
    IN (lastOp.name = "generateShells" /\ baseMesh.valid)
       => /\ Len(returned) = n
          /\ \A i \in 1..Len(returned) :
               LET layer == heap.userData[returned[i]]
               IN /\ ~layer.indexed
                  /\ layer.vertexCount = 3 * F
                  /\ layer.shellLayer = i
                  /\ layer.shellCount = n
                  /\ layer.normalizedLayer = (1000 * i) \div n

\* a pool hit on the indexed quad with 32 shells: the pooled clones are
\* what was returned
C18_Witness ==
    /\ lastOp.name = "generateShells"
    /\ baseMesh.valid
    /\ baseMesh.geometry.indexed
    /\ shellGeometry.shellCount = 32
    /\ Len(returned) = 32
    /\ Elems(returned) \subseteq PooledGeometries(shellGeometry)

\* C19: with tapering disabled or with intensity 0, calculateTaperingScale
\* returns exactly 1.0 for every position and every curve, in the shell and
\* in the fin builder.
C19_NoTaperingIsIdentity ==
    /\ (/\ lastOp.name = "ShellGeometry.calculateTaperingScale"
        /\ (~shellGeometry.taperingEnabled \/ shellGeometry.taperingIntensity = 0))
       => returned = <<1000>>
    /\ (/\ lastOp.name = "FinGeometry.calculateTaperingScale"
        /\ (~finGeometry.taperingEnabled \/ finGeometry.taperingIntensity = 0))
       => returned = <<1000>>

\* the fin builder, tapering disabled at intensity 0.7 and the exponential
\* curve, asked for the scale half way up
C19_Witness ==
    /\ lastOp.name = "FinGeometry.calculateTaperingScale"
    /\ lastOp.arg = 500
    /\ ~finGeometry.taperingEnabled
    /\ finGeometry.taperingIntensity = 700
    /\ finGeometry.taperingCurve = "exponential"
    /\ returned = <<1000>>

\* C20: with tapering enabled, for every curve (an unknown one counts as
\* quadratic) and every intensity in [0, 1], calculateTaperingScale(0) is
\* 1.0 and calculateTaperingScale(1) is 1 - intensity, in both builders.
C20_ScaleAtBaseAndTip ==
    LET ends(g) == /\ lastOp.arg = 0 => returned = <<1000>>
                   /\ lastOp.arg = 1000 => returned = <<1000 - g.taperingIntensity>>
    IN /\ (lastOp.name = "ShellGeometry.calculateTaperingScale"
           /\ shellGeometry.taperingEnabled) => ends(shellGeometry)
       /\ (lastOp.name = "FinGeometry.calculateTaperingScale"
           /\ finGeometry.taperingEnabled) => ends(finGeometry)

\* the shell builder, intensity 0.7 and a curve of no known name, asked
\* for the scale at the tip
C20_Witness ==
    /\ lastOp.name = "ShellGeometry.calculateTaperingScale"
    /\ lastOp.arg = 1000
    /\ shellGeometry.taperingEnabled
    /\ shellGeometry.taperingIntensity = 700
    /\ shellGeometry.taperingCurve = "cubic"
    /\ returned = <<300>>

\* C21: the offsetDistance tagged on the layers generateShells returns is
\* strictly increasing in the layer index 1..totalShells, and the outermost
\* layer's offsetDistance is exactly maxShellDistance (offsets are in 10^-6,
\* maxShellDistance in milli).
C21_OffsetsIncreaseToMax ==
    LET n == Len(returned)
        offset(i) == heap.userData[returned[i]].offsetDistance
    IN (lastOp.name = "generateShells" /\ baseMesh.valid)
       => /\ n = shellGeometry.shellCount
          /\ \A i \in 1..(n - 1) : offset(i) < offset(i + 1)
          /\ offset(1) > 0
          /\ offset(n) = 1000 * shellGeometry.maxShellDistance

\* 32 layers generated under the smallest maxShellDistance the setter
\* allows, 0.01
C21_Witness ==
    /\ lastOp.name = "generateShells"
    /\ baseMesh.valid
    /\ shellGeometry.shellCount = 32
    /\ shellGeometry.maxShellDistance = 10
    /\ Len(returned) = 32
    /\ heap.userData[returned[32]].offsetDistance = 10000

\* C22: after any sequence of WindSimulation setter and preset calls every
\* parameter lies in its range: each direction axis in [-1, 1]; windStrength
\* and gustStrength in [0, 2]; turbulenceIntensity and
\* windRandomnessIntensity in [0, 1]; turbulenceFrequency in [0.1, 5];
\* gustFrequency in [0.1, 3]; gustDuration in [0.5, 5]; windDampening in
\* [0.1, 1]; windResponsiveness and animationSpeed in [0.1, 3]; and no call
\* raised an error.
C22_WindParametersInRange ==
    LET w == windSimulation
        in(lo, hi, v) == lo <= v /\ v <= hi
    IN /\ \A axis \in 1..3 : in(-1000, 1000, w.windDirection[axis])
       /\ in(0, 2000, w.windStrength)
       /\ in(0, 2000, w.gustStrength)
       /\ in(0, 1000, w.turbulenceIntensity)
       /\ in(0, 1000, w.windRandomnessIntensity)
       /\ in(100, 5000, w.turbulenceFrequency)
       /\ in(100, 3000, w.gustFrequency)
       /\ in(500, 5000, w.gustDuration)
       /\ in(100, 1000, w.windDampening)
       /\ in(100, 3000, w.windResponsiveness)
       /\ in(100, 3000, w.animationSpeed)
       /\ observed.error = "none"

\* setGustDuration(0.05) after setWindDirectionY(9): the duration sits on
\* its floor 0.5 and the axis on its ceiling 1
C22_Witness ==
    /\ lastOp.name = "setGustDuration"
    /\ lastOp.arg = 50
    /\ windSimulation.gustDuration = 500
    /\ windSimulation.windDirection[2] = 1000

\* C23: in every reachable state the renderer's and the builder's
\* shellCount is an integer in [8, 32], their shellSpacing is at least 0.001
\* and their maxShellDistance at least 0.01; and the shell meshes in the
\* scene were generated with the values the renderer's getters report: the
\* builder holds the same three values, there is one mesh per shell, and
\* each layer is tagged with that count and the outermost with that distance.
C23_ShellParametersClamped ==
    LET fr == furRenderer
        sg == shellGeometry
        n  == Len(fr.shellMeshes)
        layer(k) == heap.userData[fr.shellMeshes[k].geometry]
    IN /\ fr.shellCount \in 8..32 /\ sg.shellCount \in 8..32
       /\ fr.shellSpacing >= 1 /\ sg.shellSpacing >= 1
       /\ fr.maxShellDistance >= 10 /\ sg.maxShellDistance >= 10
       /\ n > 0 => /\ sg.shellCount = fr.shellCount
                   /\ sg.shellSpacing = fr.shellSpacing
                   /\ sg.maxShellDistance = fr.maxShellDistance
                   /\ n = fr.shellCount
                   /\ \A k \in 1..n : layer(k).shellCount = fr.shellCount
                   /\ layer(n).offsetDistance = 1000 * fr.maxShellDistance

\* setShellCount(-3) with a mesh set and the shells enabled: the count is
\* 8 in the renderer and in the builder, and 8 shells are in the scene
C23_Witness ==
    /\ lastOp.name = "setShellCount"
    /\ lastOp.arg = -3000
    /\ furRenderer.shellCount = 8
    /\ shellGeometry.shellCount = 8
    /\ Len(furRenderer.shellMeshes) = 8

\* C24: generateShells on a source mesh that has normals changes no value
\* of the source geometry's position, normal, uv and index arrays; and a
\* store into the position or normal array of one returned layer changes
\* that array only, which is an array of no other geometry on the heap
\* (layer or pooled clone) and of no source geometry.
C24_LayersIndependent ==
    [][ /\ (lastOp'.name = "generateShells" /\ baseMesh.valid /\ baseMesh.geometry.normal)
           => heap'.written \cap SourceArrays(baseMesh.geometry)
                = heap.written \cap SourceArrays(baseMesh.geometry)
        /\ lastOp'.name = "write"
           => LET target == returned[lastOp'.arg[1]]
                  array  == ArrayOf(heap.userData[target], target, lastOp'.arg[2])
              IN /\ heap'.written = heap.written \cup {array}
                 /\ array \notin SourceArrays(baseMesh.geometry)
                 /\ \A id \in DOMAIN heap.userData \ {target} :
                      \A attr \in {"position", "normal", "uv"} :
                        ArrayOf(heap.userData[id], id, attr) # array
      ]_vars

\* 8 layers of the non-indexed two-triangle mesh, which has normals, were
\* generated and the caller stored into the position array of the first:
\* that array alone has changed
C24_Witness ==
    /\ lastOp.name = "write"
    /\ lastOp.arg = <<1, "position">>
    /\ ~baseMesh.geometry.indexed
    /\ baseMesh.geometry.normal
    /\ Len(returned) = 8
    /\ heap.written = {<<"geometry", returned[1], "position">>}

C26_SameTaperingFunction ==
    LET sg == shellGeometry
        fg == finGeometry
    IN (/\ lastOp.name \in {"ShellGeometry.calculateTaperingScale",
                            "FinGeometry.calculateTaperingScale"}
        /\ sg.taperingEnabled = fg.taperingEnabled
        /\ sg.taperingIntensity = fg.taperingIntensity
        /\ sg.taperingCurve = fg.taperingCurve)
       => \A method \in {"centroid", "normal", "hybrid"} :
            /\ returned = <<ShellGeometry_calculateTaperingScale(
                               [sg EXCEPT !.taperingMethod = method], lastOp.arg)>>
            /\ returned = <<FinGeometry_calculateTaperingScale(
                               [fg EXCEPT !.taperingMethod = method], lastOp.arg)>>

\* the fin builder under the centroid method, intensity 0.7 and the
\* exponential curve, asked for the scale three quarters up
C26_Witness ==
    /\ lastOp.name = "FinGeometry.calculateTaperingScale"
    /\ lastOp.arg = 750
    /\ finGeometry.taperingEnabled
    /\ finGeometry.taperingMethod = "centroid"
    /\ finGeometry.taperingIntensity = 700
    /\ finGeometry.taperingCurve = "exponential"
    /\ returned # <<1000>>
    /\ returned = <<ShellGeometry_calculateTaperingScale(shellGeometry, 750)>>

\* C27: init() runs at most once per renderer, so the three shader
\* materials are created once; under every interleaving of the shader loads
\* the material of the current mesh is the renderer's surfaceMaterial, the
\* material of every fin mesh and shell mesh is a clone of the renderer's
\* finMaterial and shellMaterial, and after dispose() every material an
\* init() call created is disposed.
C27_MaterialsCreatedOnce ==
    LET fr == furRenderer
        created == UNION {Elems(initCalls[i]) : i \in 1..Len(initCalls)}
    IN /\ Len(initCalls) <= 1
       /\ Cardinality(created) <= 3
       /\ fr.currentMesh # "null"
            => sourceMeshes[fr.currentMesh].material = fr.surfaceMaterial
       /\ \A k \in 1..Len(fr.finMeshes) : fr.finMeshes[k].cloneOf = fr.finMaterial
       /\ \A k \in 1..Len(fr.shellMeshes) : fr.shellMeshes[k].cloneOf = fr.shellMaterial
       /\ Disposed => created \subseteq heap.disposed

\* C28: on a model switch the outgoing mesh has its original material back
\* before the application disposes the mesh's material, so as long as the
\* renderer has not been disposed its surfaceMaterial is not disposed.
C28_SurfaceMaterialLiveInUse ==
    ~Disposed => furRenderer.surfaceMaterial \notin heap.disposed

\* C29: the material cloned for a fin mesh or a shell mesh is disposed when
\* the mesh is cleared: the cloned materials not yet disposed are as many as
\* the fin meshes and shell meshes the renderer holds.
C29_ClonesDisposedWithMeshes ==
    LET fr == furRenderer
        clones == heap.materials \ {fr.surfaceMaterial, fr.finMaterial, fr.shellMaterial}
    IN Cardinality(clones \ heap.disposed) = Len(fr.finMeshes) + Len(fr.shellMeshes)

\* C30: in every state the handlers reach, fin meshes exist only while fins
\* are enabled and a mesh is set, shell meshes exist only while shells are
\* enabled and a mesh is set, every fin mesh and shell mesh of the renderer
\* is in the scene, and the scene holds no fin or shell mesh that was cleared.
C30_MeshListsMatchFlagsAndScene ==
    LET fr == furRenderer
    IN /\ fr.finMeshes # <<>> => fr.finEnabled /\ fr.currentMesh # "null"
       /\ fr.shellMeshes # <<>> => fr.shellEnabled /\ fr.currentMesh # "null"
       /\ scene = MeshIds(fr.finMeshes) \cup MeshIds(fr.shellMeshes)

\* fins were disabled while a mesh with fins and shells was set: the fin
\* meshes are gone from the list and the scene, the shell meshes stay
C30_Witness ==
    /\ lastOp.name = "setFinEnabled"
    /\ lastOp.arg = FALSE
    /\ furRenderer.currentMesh # "null"
    /\ furRenderer.finMeshes = <<>>
    /\ furRenderer.shellMeshes # <<>>
    /\ scene = MeshIds(furRenderer.shellMeshes)
    /\ heap.geometries \cap heap.disposed # {}

====
